---------------------------- MODULE Spec2Model ----------------------------
(***************************************************************************)
(* A model of sqlite.cpp / sqlite.hpp: the SQLite connection wrapper, its  *)
(* nested Statement, the error classification of throwSQLiteError, and the *)
(* part of the native engine (sqlite3) that the wrapper's behaviour        *)
(* depends on.  Every wrapper operation is one action; an action covers    *)
(* the whole call, the engine calls it makes included.                     *)
(***************************************************************************)
EXTENDS Integers, Sequences, FiniteSets, TLC

(***************************************************************************)
(* Bounds of the model.                                                    *)
(***************************************************************************)
NConn == 2      \* SQLite objects the program may have at once
NStmt == 2      \* Statement objects the program may have at once
MaxDb == 2      \* database handles the engine hands out in one run
MaxSt == 2      \* statement handles the engine hands out in one run

Conns == 1..NConn
Stmts == 1..NStmt
DbHandles == 1..MaxDb
StHandles == 1..MaxSt

(***************************************************************************)
(* Result codes of the engine that the source names.                       *)
(***************************************************************************)
SQLITE_OK == 0
SQLITE_BUSY == 5
SQLITE_MISUSE == 21
SQLITE_ROW == 100
SQLITE_DONE == 101

\* Primary codes a failing engine call reports in this model: SQLITE_ERROR (1),
\* SQLITE_BUSY, SQLITE_LOCKED (6) and SQLITE_MISUSE.
Codes == {1, SQLITE_BUSY, 6, SQLITE_MISUSE}

\* nullptr
NULL == 0

\* an empty std::unordered_map
EmptyMap == [x \in {} |-> 0]

(***************************************************************************)
(* The engine's error state of one connection: what sqlite3_errcode,       *)
(* sqlite3_extended_errcode, sqlite3_errmsg and sqlite3_error_offset       *)
(* return.  An extended code keeps the primary code in its low byte.       *)
(***************************************************************************)
OkErr == [code |-> SQLITE_OK, ext |-> SQLITE_OK, msg |-> "not an error", off |-> -1]

EngineErrors ==
    { [code |-> c, ext |-> c + 256, msg |-> "engine message", off |-> o] :
        c \in Codes, o \in {-1, 2} }

(***************************************************************************)
(* SQL texts the program uses, and what the engine makes of them.          *)
(***************************************************************************)
SqlTexts == {"", "SELEC 1", "SELECT 1 AS a, 2 AS a", "SELECT :x AS b"}

\* whether the engine can compile the text
Compiles(sql) == sql \in {"SELECT 1 AS a, 2 AS a", "SELECT :x AS b", "SELECT ?"}

\* sqlite3_column_count / sqlite3_column_name of the compiled text
Columns(sql) ==
    CASE sql = "SELECT 1 AS a, 2 AS a" -> <<"a", "a">>
      [] sql = "SELECT :x AS b" -> <<"b">>
      [] sql = "SELECT ?" -> <<"?">>
      [] OTHER -> <<>>

\* names of the parameters of the compiled text, 1-based; the parameter ? has
\* no name
Params(sql) ==
    CASE sql = "SELECT :x AS b" -> <<":x">>
      [] sql = "SELECT ?" -> <<"">>
      [] OTHER -> <<>>

\* number of rows the compiled text yields
RowCount(sql) == IF Compiles(sql) THEN 1 ELSE 0

ColumnNames == {"a", "b", "zz"}
ParamNames == {":x", ":nope"}

VARIABLES
    connLive,       \* [Conns -> BOOLEAN]: the SQLite object exists
    db,             \* [Conns -> handle or NULL]: SQLite::db
    stmtLive,       \* [Stmts -> BOOLEAN]: the Statement object exists
    stmt,           \* [Stmts -> handle or NULL]: Statement::stmt
    columnIndices,  \* [Stmts -> map]: Statement::columnIndices
    engDb,          \* engine: state of every database handle
    engStmt,        \* engine: state of every statement handle
    columnMetadata, \* the build defines SQLITE_ENABLE_COLUMN_METADATA
    lastOp,         \* the last operation and how it ended
    calls,          \* the engine calls the last operation made, in order
    crashed         \* the process ended (std::terminate, or a crash)

vars == <<connLive, db, stmtLive, stmt, columnIndices, engDb, engStmt, columnMetadata,
          lastOp, calls, crashed>>

(***************************************************************************)
(* Exceptions: SQLite::Error and its subclasses, and SQLite::OtherError.   *)
(***************************************************************************)
NoExc == [kind |-> "none", message |-> "", errmsg |-> "", code |-> 0, ext |-> 0,
          sql |-> "", off |-> -1]

Error(kind, message, errmsg, code, ext) ==
    [kind |-> kind, message |-> message, errmsg |-> errmsg, code |-> code, ext |-> ext,
     sql |-> "", off |-> -1]

SyntaxError(message, errmsg, code, ext, sql, off) ==
    [kind |-> "SyntaxError", message |-> message, errmsg |-> errmsg, code |-> code,
     ext |-> ext, sql |-> sql, off |-> off]

OtherError(message) ==
    [kind |-> "OtherError", message |-> message, errmsg |-> "", code |-> 0, ext |-> 0,
     sql |-> "", off |-> -1]

EngineKinds == {"Error", "SyntaxError", "BusyError", "MisuseError"}

(***************************************************************************)
(* throwSQLiteError(db, message, sql): err is the error state of db in the *)
(* engine at the time of the call, left there by the call that failed.     *)
(***************************************************************************)
throwSQLiteError_CodeFirst(err, message, sql) ==
    LET code == err.code
        extended_code == err.ext
        errmsg == err.msg
        offset == IF sql = "" THEN -1 ELSE err.off
    IN  CASE code = SQLITE_BUSY -> Error("BusyError", message, errmsg, code, extended_code)
          [] code = SQLITE_MISUSE -> Error("MisuseError", message, errmsg, code, extended_code)
          [] offset > -1 -> SyntaxError(message, errmsg, code, extended_code, sql, offset)
          [] OTHER -> Error("Error", message, errmsg, code, extended_code)

throwSQLiteError_OffsetAlways(err, message, sql) ==
    LET code == err.code
        extended_code == err.ext
        errmsg == err.msg
        offset == err.off
    IN  IF offset > -1
        THEN SyntaxError(message, errmsg, code, extended_code, sql, offset)
        ELSE CASE code = SQLITE_BUSY ->
                      Error("BusyError", message, errmsg, code, extended_code)
               [] code = SQLITE_MISUSE ->
                      Error("MisuseError", message, errmsg, code, extended_code)
               [] OTHER -> Error("Error", message, errmsg, code, extended_code)

throwSQLiteError_LockedIsBusy(err, message, sql) ==
    LET code == err.code
        extended_code == err.ext
        errmsg == err.msg
        offset == IF sql = "" THEN -1 ELSE err.off
    IN  IF offset > -1
        THEN SyntaxError(message, errmsg, code, extended_code, sql, offset)
        ELSE CASE code \in {SQLITE_BUSY, 6} ->
                      Error("BusyError", message, errmsg, code, extended_code)
               [] code = SQLITE_MISUSE ->
                      Error("MisuseError", message, errmsg, code, extended_code)
               [] OTHER -> Error("Error", message, errmsg, code, extended_code)

throwSQLiteError(err, message, sql) ==
    LET code == err.code
        extended_code == err.ext
        errmsg == err.msg
        offset == IF sql = "" THEN -1 ELSE err.off
    IN  IF offset > -1
        THEN SyntaxError(message, errmsg, code, extended_code, sql, offset)
        ELSE CASE code = SQLITE_BUSY ->
                      Error("BusyError", message, errmsg, code, extended_code)
               [] code = SQLITE_MISUSE ->
                      Error("MisuseError", message, errmsg, code, extended_code)
               [] OTHER -> Error("Error", message, errmsg, code, extended_code)


(***************************************************************************)
(* The engine.  A database handle is free (not handed out), open, failed   *)
(* (handed out by a failed sqlite3_open_v2; it still has to be closed) or  *)
(* closed.  A statement handle is free, live or finalized.                 *)
(***************************************************************************)
FreeDb == [st |-> "free"]

FreeStmt == [st |-> "free", db |-> NULL, sql |-> "", pos |-> 0, rc |-> OkErr, bind |-> <<>>]

FreeDbs == {h \in DbHandles : engDb[h].st = "free"}
NewDb == CHOOSE h \in FreeDbs : \A g \in FreeDbs : h <= g

FreeSts == {h \in StHandles : engStmt[h].st = "free"}
NewSt == CHOOSE h \in FreeSts : \A g \in FreeSts : h <= g

\* the statements of a connection that are not finalized
LiveStmtsOn(h) == {t \in StHandles : engStmt[t].st = "live" /\ engStmt[t].db = h}

\* an entry of the log of engine calls: the primitive, the handle it was given,
\* whether that handle was already released when the call was made, and the
\* result code returned (0 for a primitive that returns none)
Call(fn, h, stale, rc) == [fn |-> fn, h |-> h, stale |-> stale, rc |-> rc]

\* SQLITE_RANGE and SQLITE_MISUSE as the engine reports them on a bad argument
RangeErr == [code |-> 25, ext |-> 25, msg |-> "column index out of range", off |-> -1]
MisuseErr == [code |-> SQLITE_MISUSE, ext |-> SQLITE_MISUSE,
              msg |-> "bad parameter or other API misuse", off |-> -1]

(***************************************************************************)
(* Open flags.  a & b and a | b on the non-negative ints the flags are.    *)
(***************************************************************************)
RECURSIVE BitAnd(_, _)
BitAnd(a, b) ==
    IF a = 0 \/ b = 0 THEN 0
    ELSE (a % 2) * (b % 2) + 2 * BitAnd(a \div 2, b \div 2)

RECURSIVE BitOr(_, _)
BitOr(a, b) ==
    IF a = 0 THEN b
    ELSE IF b = 0 THEN a
    ELSE (IF a % 2 = 1 \/ b % 2 = 1 THEN 1 ELSE 0) + 2 * BitOr(a \div 2, b \div 2)

\* enum class OpenFlags
OpenFlags ==
    [None |-> 0, ReadOnly |-> 2^0, ReadWrite |-> 2^1, Create |-> 2^2, URI |-> 2^3,
     Memory |-> 2^4, NoMutex |-> 2^5, FullMutex |-> 2^6, SharedCache |-> 2^7,
     PrivateCache |-> 2^8, NoFollow |-> 2^9]

\* the engine's SQLITE_OPEN_* bits
SQLITE_OPEN ==
    [READONLY |-> 1, READWRITE |-> 2, CREATE |-> 4, URI |-> 64, MEMORY |-> 128,
     NOMUTEX |-> 32768, FULLMUTEX |-> 65536, SHAREDCACHE |-> 131072,
     PRIVATECACHE |-> 262144, NOFOLLOW |-> 16777216]

\* operator|(OpenFlags lhs, OpenFlags rhs)
operatorOr(lhs, rhs) == BitOr(lhs, rhs)

\* the lines of toSQLiteOpenFlags, in order: the flag tested, the bit set
FlagLines ==
    << <<"ReadOnly", "READONLY">>, <<"ReadWrite", "READWRITE">>, <<"Create", "CREATE">>,
       <<"URI", "URI">>, <<"Memory", "MEMORY">>, <<"NoMutex", "NOMUTEX">>,
       <<"FullMutex", "FULLMUTEX">>, <<"SharedCache", "SHAREDCACHE">>,
       <<"PrivateCache", "PRIVATECACHE">>, <<"NoFollow", "NOFOLLOW">> >>

\* lines k.. of toSQLiteOpenFlags, with sqliteFlags as the lines before left it
RECURSIVE flagLinesFrom_ElseIf(_, _, _)
flagLinesFrom_ElseIf(flags, k, sqliteFlags) ==
    IF k > Len(FlagLines) THEN sqliteFlags
    ELSE IF BitAnd(flags, OpenFlags[FlagLines[k][1]]) # 0
    THEN BitOr(sqliteFlags, SQLITE_OPEN[FlagLines[k][2]])
    ELSE flagLinesFrom_ElseIf(flags, k + 1, sqliteFlags)

RECURSIVE flagLinesFrom(_, _, _)
flagLinesFrom(flags, k, sqliteFlags) ==
    IF k > Len(FlagLines) THEN sqliteFlags
    ELSE flagLinesFrom(flags, k + 1,
                       IF BitAnd(flags, OpenFlags[FlagLines[k][1]]) # 0
                       THEN BitOr(sqliteFlags, SQLITE_OPEN[FlagLines[k][2]])
                       ELSE sqliteFlags)

\* SQLite::toSQLiteOpenFlags, for every value of the ten flag bits
FlagWords == [flags \in 0..(2^Len(FlagLines) - 1) |-> flagLinesFrom(flags, 1, 0)]
toSQLiteOpenFlags(flags) == FlagWords[flags]

\* sqlite3_open_v2 with the flag word sqliteFlags: refused with SQLITE_MISUSE
\* unless the word asks for read-only, read-write, or read-write and create;
\* otherwise e is OkErr for success, the error otherwise; a handle is handed out
\* in every case
sqlite3_open_v2(sqliteFlags, e) ==
    LET x == IF BitAnd(sqliteFlags, 7) \in {1, 2, 6} THEN e ELSE MisuseErr IN
    [rc |-> x.code, h |-> NewDb, err |-> x, flags |-> sqliteFlags,
     D |-> [engDb EXCEPT ![NewDb].st = IF x.code = SQLITE_OK THEN "open" ELSE "failed"]]

\* the call of sqlite3_open_v2 that handed out h, with its flag word
OpenCall(h, rc, sqliteFlags) ==
    [fn |-> "sqlite3_open_v2", h |-> h, stale |-> FALSE, rc |-> rc, flags |-> sqliteFlags]

\* sqlite3_close: fails with SQLITE_BUSY, leaving the handle valid, while the
\* connection has statements that are not finalized; e is the error it then sets
sqlite3_close(h, e) ==
    IF LiveStmtsOn(h) # {}
    THEN [rc |-> e.code, err |-> e, D |-> engDb]
    ELSE [rc |-> SQLITE_OK, err |-> OkErr, D |-> [engDb EXCEPT ![h].st = "closed"]]

\* the errors sqlite3_close can set: the offset is the one an earlier call left
CloseErrors == {e \in EngineErrors : e.code = SQLITE_BUSY}

\* what a read of released memory can produce, given the error states errs it
\* may see: the process crashes, or the call sees one of them
UB(errs) ==
    {[crash |-> TRUE, err |-> OkErr]} \cup {[crash |-> FALSE, err |-> e] : e \in errs}

NoUB == [crash |-> FALSE, err |-> OkErr]

(***************************************************************************)
(* The record of the last operation: the operation, the object it was      *)
(* called on, a second object (the source of a move, the Statement made by *)
(* prepare) or the flags given to open, the exception that left it and the *)
(* value it returned.                                                      *)
(***************************************************************************)
Void == [i |-> 0, s |-> ""]
RInt(i) == [i |-> i, s |-> ""]
RStr(s) == [i |-> 0, s |-> s]
\* int64_t and double: the two words; std::string of a column: its bytes;
\* SQLite::Blob: the data pointer (null, or the bytes it points to) and size
RInt64(v) == [i |-> v.lo, s |-> "", hi |-> v.hi]
RBytes(b) == [i |-> Len(b), s |-> "", b |-> b]
RBlob(data, size) == [i |-> size, s |-> "", b |-> data.b, null |-> data.null]

Op(op, self, other, exc, ret) ==
    [op |-> op, self |-> self, other |-> other, exc |-> exc, ret |-> ret]

\* the state after construction of the program; md tells whether the build
\* defines SQLITE_ENABLE_COLUMN_METADATA
Start(md) ==
    /\ connLive = [c \in Conns |-> FALSE]
    /\ db = [c \in Conns |-> NULL]
    /\ stmtLive = [s \in Stmts |-> FALSE]
    /\ stmt = [s \in Stmts |-> NULL]
    /\ columnIndices = [s \in Stmts |-> EmptyMap]
    /\ engDb = [h \in DbHandles |-> FreeDb]
    /\ engStmt = [h \in StHandles |-> FreeStmt]
    /\ columnMetadata = md
    /\ lastOp = Op("init", 0, 0, NoExc, Void)
    /\ calls = <<>>
    /\ crashed = FALSE

Init == Start(FALSE)

(***************************************************************************)
(* SQLite (the connection).                                                *)
(***************************************************************************)
ensureDb_StatementMessage(c) ==
    IF db[c] = NULL THEN OtherError("SQLite statement not initialized")
    ELSE NoExc

\* SQLite::ensure
ensureDb(c) ==
    IF db[c] = NULL THEN OtherError("SQLite database connection not initialized")
    ELSE NoExc

\* SQLite::operator bool
operatorBool(c) == db[c] # NULL

\* SQLite()
SQLiteCtor(c) ==
    /\ ~crashed /\ ~connLive[c]
    /\ connLive' = [connLive EXCEPT ![c] = TRUE]
    /\ db' = [db EXCEPT ![c] = NULL]
    /\ lastOp' = Op("SQLite", c, 0, NoExc, Void)
    /\ calls' = <<>>
    /\ UNCHANGED <<stmtLive, stmt, columnIndices, engDb, engStmt, columnMetadata, crashed>>

\* SQLite::open(dbName, flags): the field is overwritten with the handle
\* sqlite3_open_v2 hands out; e is the engine's outcome; the record of the
\* operation keeps the flags argument
open(c, flags, e) ==
    /\ ~crashed /\ connLive[c] /\ FreeDbs # {}
    /\ LET r == sqlite3_open_v2(toSQLiteOpenFlags(flags), e) IN
       /\ db' = [db EXCEPT ![c] = r.h]
       /\ engDb' = r.D
       /\ calls' = <<OpenCall(r.h, r.rc, r.flags)>>
       /\ lastOp' = Op("open", c, flags,
                     IF r.rc # SQLITE_OK
                     THEN throwSQLiteError(r.err, "failed to open database", "")
                     ELSE NoExc, Void)
    /\ UNCHANGED <<connLive, stmtLive, stmt, columnIndices, engStmt, columnMetadata, crashed>>

\* SQLite(dbName, flags): the constructor calls open; when open throws, the
\* object is not constructed and its destructor never runs
SQLiteCtorOpen(c, flags, e) ==
    /\ ~crashed /\ ~connLive[c] /\ FreeDbs # {}
    /\ LET r == sqlite3_open_v2(toSQLiteOpenFlags(flags), e) IN
       /\ engDb' = r.D
       /\ calls' = <<OpenCall(r.h, r.rc, r.flags)>>
       /\ IF r.rc # SQLITE_OK
          THEN /\ lastOp' = Op("SQLite(name)", c, flags,
                             throwSQLiteError(r.err, "failed to open database", ""), Void)
               /\ UNCHANGED <<connLive, db>>
          ELSE /\ lastOp' = Op("SQLite(name)", c, flags, NoExc, Void)
               /\ connLive' = [connLive EXCEPT ![c] = TRUE]
               /\ db' = [db EXCEPT ![c] = r.h]
    /\ UNCHANGED <<stmtLive, stmt, columnIndices, engStmt, columnMetadata, crashed>>

\* SQLite::close on connection c: the field, the engine, the exception and the
\* engine calls after it; e is the error the engine sets if its close fails
closeRes_ClearsOnFailure(c, e) ==
    IF db[c] # NULL
    THEN LET r == sqlite3_close(db[c], e) IN
         [db |-> NULL, D |-> r.D,
          exc |-> IF r.rc # SQLITE_OK
                  THEN throwSQLiteError(r.err, "failed to close connection", "")
                  ELSE NoExc,
          calls |-> <<Call("sqlite3_close", db[c], FALSE, r.rc)>>]
    ELSE [db |-> NULL, D |-> engDb, exc |-> NoExc, calls |-> <<>>]

closeRes_NoGuard(c, e) ==
    IF db[c] # NULL
    THEN LET r == sqlite3_close(db[c], e) IN
         IF r.rc # SQLITE_OK
         THEN [db |-> db[c], D |-> r.D,
               exc |-> throwSQLiteError(r.err, "failed to close connection", ""),
               calls |-> <<Call("sqlite3_close", db[c], FALSE, r.rc)>>]
         ELSE [db |-> NULL, D |-> r.D, exc |-> NoExc,
               calls |-> <<Call("sqlite3_close", db[c], FALSE, r.rc)>>]
    ELSE [db |-> NULL, D |-> engDb, exc |-> NoExc,
          calls |-> <<Call("sqlite3_close", NULL, FALSE, SQLITE_OK)>>]

closeRes(c, e) ==
    IF db[c] # NULL
    THEN LET r == sqlite3_close(db[c], e) IN
         IF r.rc # SQLITE_OK
         THEN [db |-> db[c], D |-> r.D,
               exc |-> throwSQLiteError(r.err, "failed to close connection", ""),
               calls |-> <<Call("sqlite3_close", db[c], FALSE, r.rc)>>]
         ELSE [db |-> NULL, D |-> r.D, exc |-> NoExc,
               calls |-> <<Call("sqlite3_close", db[c], FALSE, r.rc)>>]
    ELSE [db |-> db[c], D |-> engDb, exc |-> NoExc, calls |-> <<>>]

\* SQLite::close
close(c, e) ==
    /\ ~crashed /\ connLive[c] /\ e \in CloseErrors
    /\ LET r == closeRes(c, e) IN
       /\ db' = [db EXCEPT ![c] = r.db]
       /\ engDb' = r.D
       /\ calls' = r.calls
       /\ lastOp' = Op("close", c, 0, r.exc, Void)
    /\ UNCHANGED <<connLive, stmtLive, stmt, columnIndices, engStmt, columnMetadata, crashed>>

\* SQLite::~SQLite: close(); the destructor is noexcept, so an exception leaving
\* close() ends the process (std::terminate)
SQLiteDtor(c, e) ==
    /\ ~crashed /\ connLive[c] /\ e \in CloseErrors
    /\ LET r == closeRes(c, e) IN
       /\ db' = [db EXCEPT ![c] = r.db]
       /\ engDb' = r.D
       /\ calls' = r.calls
       /\ lastOp' = Op("~SQLite", c, 0, r.exc, Void)
       /\ crashed' = (r.exc # NoExc)
       /\ connLive' = [connLive EXCEPT ![c] = (r.exc # NoExc)]
    /\ UNCHANGED <<stmtLive, stmt, columnIndices, engStmt, columnMetadata>>

\* SQLite(SQLite&& other): dst is the object constructed, src is other
SQLiteMoveCtor_KeepsSource(src, dst) ==
    /\ ~crashed /\ connLive[src] /\ ~connLive[dst]
    /\ connLive' = [connLive EXCEPT ![dst] = TRUE]
    /\ db' = [db EXCEPT ![dst] = db[src]]
    /\ lastOp' = Op("SQLite(&&)", dst, src, NoExc, Void)
    /\ calls' = <<>>
    /\ UNCHANGED <<stmtLive, stmt, columnIndices, engDb, engStmt, columnMetadata, crashed>>

SQLiteMoveCtor(src, dst) ==
    /\ ~crashed /\ connLive[src] /\ ~connLive[dst]
    /\ connLive' = [connLive EXCEPT ![dst] = TRUE]
    /\ db' = [db EXCEPT ![dst] = db[src], ![src] = NULL]
    /\ lastOp' = Op("SQLite(&&)", dst, src, NoExc, Void)
    /\ calls' = <<>>
    /\ UNCHANGED <<stmtLive, stmt, columnIndices, engDb, engStmt, columnMetadata, crashed>>

\* SQLite::operator=(SQLite&& other), noexcept: dst is *this, src is other; an
\* exception leaving close() ends the process
SQLiteMoveAssign(src, dst, e) ==
    /\ ~crashed /\ connLive[src] /\ connLive[dst] /\ e \in CloseErrors
    /\ IF dst # src
       THEN LET r == closeRes(dst, e) IN
            /\ engDb' = r.D
            /\ calls' = r.calls
            /\ lastOp' = Op("SQLite=", dst, src, r.exc, Void)
            /\ crashed' = (r.exc # NoExc)
            /\ db' = IF r.exc # NoExc THEN [db EXCEPT ![dst] = r.db]
                     ELSE [db EXCEPT ![dst] = db[src], ![src] = NULL]
       ELSE /\ lastOp' = Op("SQLite=", dst, src, NoExc, Void)
            /\ calls' = <<>>
            /\ UNCHANGED <<db, engDb, crashed>>
    /\ UNCHANGED <<connLive, stmtLive, stmt, columnIndices, engStmt, columnMetadata>>

(***************************************************************************)
(* The engine's values.  An INTEGER is 64 bits wide, kept as two 32-bit     *)
(* words in two's complement: hi the upper word, lo the lower word read as  *)
(* a signed int.  TEXT and BLOB are sequences of bytes.                     *)
(***************************************************************************)
NullValue == [t |-> "null", hi |-> 0, lo |-> 0, b |-> <<>>]
Integer64(hi, lo) == [t |-> "integer", hi |-> hi, lo |-> lo, b |-> <<>>]
TextValue(b) == [t |-> "text", hi |-> 0, lo |-> 0, b |-> b]
BlobValue(b) == [t |-> "blob", hi |-> 0, lo |-> 0, b |-> b]

\* (sqlite3_int64)value for an int value: sign extension
SignExtend(value) == Integer64(IF value < 0 THEN -1 ELSE 0, value)

\* the four 16-bit limbs of a 64-bit value, most significant first
Limbs(v) ==
    <<(v.hi \div 65536) % 65536, v.hi % 65536, (v.lo \div 65536) % 65536, v.lo % 65536>>

\* two's complement negation of limbs: invert, add one
RECURSIVE AddOne(_, _)
AddOne(limbs, k) ==
    IF k = 0 THEN limbs
    ELSE IF limbs[k] = 65535 THEN AddOne([limbs EXCEPT ![k] = 0], k - 1)
    ELSE [limbs EXCEPT ![k] = @ + 1]

Negate(limbs) == AddOne([k \in DOMAIN limbs |-> 65535 - limbs[k]], Len(limbs))

\* limbs \div 10 and limbs % 10, by long division
RECURSIVE DivTen(_, _, _)
DivTen(limbs, k, r) ==
    IF k > Len(limbs) THEN [q |-> limbs, r |-> r]
    ELSE DivTen([limbs EXCEPT ![k] = (r * 65536 + limbs[k]) \div 10], k + 1,
                (r * 65536 + limbs[k]) % 10)

\* the decimal digits of an unsigned magnitude, as ASCII bytes
RECURSIVE Digits(_)
Digits(limbs) ==
    IF \A k \in DOMAIN limbs : limbs[k] = 0 THEN <<>>
    ELSE Digits(DivTen(limbs, 1, 0).q) \o <<48 + DivTen(limbs, 1, 0).r>>

\* the text the engine renders an INTEGER as
Decimal(v) ==
    LET m == IF v.hi < 0 THEN Negate(Limbs(v)) ELSE Limbs(v) IN
    (IF v.hi < 0 THEN <<45>> ELSE <<>>) \o (IF Digits(m) = <<>> THEN <<48>> ELSE Digits(m))

\* the integer a text starts with, 0 when it starts with none: an optional
\* minus sign and decimal digits (the texts of this model are short, so the
\* saturation of longer ones never applies)
RECURSIVE LeadingDigits(_, _, _)
LeadingDigits(b, k, acc) ==
    IF k <= Len(b) /\ b[k] \in 48..57
    THEN LeadingDigits(b, k + 1, acc * 10 + (b[k] - 48))
    ELSE acc

LeadingInt(b) ==
    IF b # <<>> /\ b[1] = 45 THEN 0 - LeadingDigits(b, 2, 0) ELSE LeadingDigits(b, 1, 0)

\* the bytes of the text form of a value, none for NULL
AsText(v) ==
    CASE v.t = "integer" -> Decimal(v)
      [] v.t \in {"text", "blob"} -> v.b
      [] OTHER -> <<>>

\* the 64-bit integer form of a value
AsInteger(v) ==
    CASE v.t = "integer" -> v
      [] v.t \in {"text", "blob"} -> SignExtend(LeadingInt(v.b))
      [] OTHER -> Integer64(0, 0)

(***************************************************************************)
(* The engine's statement primitives, on a live handle h.                  *)
(***************************************************************************)
\* sqlite3_prepare_v3 on database handle d: e is OkErr for success; an empty
\* text compiles to no statement (SQLITE_OK and a NULL handle)
sqlite3_prepare_v3(d, sql, e) ==
    IF e.code # SQLITE_OK
    THEN [rc |-> e.code, err |-> e, st |-> NULL, S |-> engStmt]
    ELSE IF sql = ""
    THEN [rc |-> SQLITE_OK, err |-> OkErr, st |-> NULL, S |-> engStmt]
    ELSE [rc |-> SQLITE_OK, err |-> OkErr, st |-> NewSt,
          S |-> [engStmt EXCEPT ![NewSt] =
                    [st |-> "live", db |-> d, sql |-> sql, pos |-> 0, rc |-> OkErr,
                     bind |-> [i \in 1..Len(Params(sql)) |-> NullValue]]]]

\* the outcomes sqlite3_prepare_v3 and sqlite3_exec can have on handle d: they
\* succeed only on an open database and a text that compiles
SqlOutcomes(d, sql) ==
    {e \in EngineErrors \cup {OkErr} :
        e = OkErr => (engDb[d].st = "open" /\ (sql = "" \/ Compiles(sql)))}

\* sqlite3_step: e is OkErr when the engine can advance.  A statement that is
\* done, or that failed, starts again from the beginning (automatic reset).
sqlite3_step(h, e) ==
    LET n == RowCount(engStmt[h].sql)
        p == IF engStmt[h].pos > n THEN 0 ELSE engStmt[h].pos
    IN  IF e.code # SQLITE_OK
        THEN [rc |-> e.code, err |-> e,
              S |-> [engStmt EXCEPT ![h].pos = n + 1, ![h].rc = e]]
        ELSE [rc |-> IF p < n THEN SQLITE_ROW ELSE SQLITE_DONE, err |-> OkErr,
              S |-> [engStmt EXCEPT ![h].pos = p + 1, ![h].rc = OkErr]]

\* sqlite3_reset: back to the start; returns the error of the last failed step
sqlite3_reset(h) ==
    [rc |-> engStmt[h].rc.code, err |-> engStmt[h].rc,
     S |-> [engStmt EXCEPT ![h].pos = 0, ![h].rc = OkErr]]

\* sqlite3_clear_bindings: always SQLITE_OK
sqlite3_clear_bindings(S, h) ==
    [rc |-> SQLITE_OK, err |-> OkErr,
     S |-> [S EXCEPT ![h].bind = [i \in DOMAIN S[h].bind |-> NullValue]]]

\* sqlite3_finalize: the handle and all it held are released whatever is
\* returned, which is the error of the last failed step
sqlite3_finalize(h) ==
    [rc |-> engStmt[h].rc.code, err |-> engStmt[h].rc,
     S |-> [engStmt EXCEPT ![h] = [FreeStmt EXCEPT !.st = "finalized"]]]

\* sqlite3_bind_*: refused on a statement that has been stepped and not reset,
\* and for an index that is no parameter; otherwise the parameter holds v
bindValue(h, index, v) ==
    LET e == IF engStmt[h].pos # 0 THEN MisuseErr
             ELSE IF index \notin DOMAIN engStmt[h].bind THEN RangeErr
             ELSE OkErr
    IN  [rc |-> e.code, err |-> e,
         S |-> IF e = OkErr THEN [engStmt EXCEPT ![h].bind[index] = v] ELSE engStmt]

\* sqlite3_bind_int: an int value
sqlite3_bind_int(h, index, value) == bindValue(h, index, SignExtend(value))

\* sqlite3_bind_int64: a 64-bit value, given as its two words
sqlite3_bind_int64(h, index, value) == bindValue(h, index, Integer64(value.hi, value.lo))

\* sqlite3_bind_text with n bytes at value: with SQLITE_TRANSIENT the engine
\* copies the bytes before it returns; with SQLITE_STATIC it keeps the pointer
\* and reads the buffer when the statement runs, when it holds later
sqlite3_bind_text(h, index, value, n, destructor, later) ==
    bindValue(h, index,
              TextValue(IF destructor = "SQLITE_TRANSIENT" THEN SubSeq(value, 1, n)
                        ELSE later))

\* sqlite3_bind_blob with n bytes at data: a null pointer binds NULL; the
\* bytes are copied or kept as for sqlite3_bind_text
sqlite3_bind_blob(h, index, data, n, destructor, later) ==
    bindValue(h, index,
              IF data.null THEN NullValue
              ELSE BlobValue(IF destructor = "SQLITE_TRANSIENT" THEN SubSeq(data.b, 1, n)
                             ELSE later))

\* sqlite3_bind_parameter_index: the first parameter of that name, 0 when none
sqlite3_bind_parameter_index(h, name) ==
    LET ps == Params(engStmt[h].sql) IN
    IF \E i \in 1..Len(ps) : ps[i] = name
    THEN CHOOSE i \in 1..Len(ps) : ps[i] = name /\ \A j \in 1..(i - 1) : ps[j] # name
    ELSE 0

\* sqlite3_bind_parameter_name: NULL ("" here) when the index is no parameter
sqlite3_bind_parameter_name(h, index) ==
    LET ps == Params(engStmt[h].sql) IN
    IF index \in 1..Len(ps) THEN ps[index] ELSE ""

\* sqlite3_column_count
sqlite3_column_count(S, h) == Len(Columns(S[h].sql))

\* sqlite3_column_name: NULL ("" here) when the index is no column
sqlite3_column_name(S, h, i) ==
    IF i \in 0..(sqlite3_column_count(S, h) - 1) THEN Columns(S[h].sql)[i + 1] ELSE ""

\* the value of column i of the current row, NULL when there is no row or no
\* such column
sqlite3_column_value(h, i) ==
    LET sql == engStmt[h].sql IN
    IF engStmt[h].pos \in 1..RowCount(sql) /\ i \in 0..(Len(Columns(sql)) - 1)
    THEN IF Params(sql) = <<>> THEN SignExtend(i + 1) ELSE engStmt[h].bind[1]
    ELSE NullValue

\* sqlite3_column_int: the low 32 bits of the integer form
sqlite3_column_int(v) == AsInteger(v).lo

\* sqlite3_column_int64
sqlite3_column_int64(v) == AsInteger(v)

\* sqlite3_column_double: the integer form as a number (exact below 2^53;
\* the values of this model have no fractional part)
sqlite3_column_double(v) == AsInteger(v)

\* sqlite3_column_text: a null pointer for NULL
sqlite3_column_text(v) == [null |-> v.t = "null", b |-> AsText(v)]

\* sqlite3_column_blob: a null pointer for NULL and for a value of no bytes
sqlite3_column_blob(v) == [null |-> AsText(v) = <<>>, b |-> AsText(v)]

\* sqlite3_column_bytes
sqlite3_column_bytes(v) == Len(AsText(v))

\* sqlite3_column_type mapped to SQLite::DataType
sqlite3_column_type(v) ==
    CASE v.t = "integer" -> "Integer"
      [] v.t = "text" -> "Text"
      [] v.t = "blob" -> "Blob"
      [] OTHER -> "Null"

(***************************************************************************)
(* SQLite::configureSerialized, a static function.                         *)
(***************************************************************************)
\* sqlite3_errstr: the English text of a result code
sqlite3_errstr(code) ==
    CASE code = SQLITE_OK -> "not an error"
      [] code = SQLITE_BUSY -> "database is locked"
      [] code = SQLITE_MISUSE -> "bad parameter or other API misuse"
      [] OTHER -> "SQL logic error"

\* sqlite3_config(SQLITE_CONFIG_SERIALIZED): refused with SQLITE_MISUSE once
\* the engine is initialized, which the first sqlite3_open_v2 does; before
\* that rc, which is SQLITE_OK, or SQLITE_ERROR in an engine built without
\* threading support
ConfigResults == {SQLITE_OK} \cup (Codes \ {SQLITE_BUSY, 6, SQLITE_MISUSE})
sqlite3_config(rc) ==
    IF \E h \in DbHandles : engDb[h] # FreeDb THEN SQLITE_MISUSE ELSE rc

\* SQLite::configureSerialized: the returned pointer is in ret, NoExc for
\* nullptr
configureSerialized(rc) ==
    /\ ~crashed
    /\ LET result == sqlite3_config(rc) IN
       /\ lastOp' = Op("configureSerialized", NULL, NULL, NoExc,
                       IF result # SQLITE_OK
                       THEN Error("Error",
                                  "failed to configure SQLite for serialized threading mode",
                                  sqlite3_errstr(result), result, result)
                       ELSE NoExc)
       /\ calls' = <<Call("sqlite3_config", NULL, FALSE, result)>>
    /\ UNCHANGED <<connLive, db, stmtLive, stmt, columnIndices, engDb, engStmt,
                   columnMetadata, crashed>>

(***************************************************************************)
(* Statement.                                                              *)
(***************************************************************************)
\* Statement::ensure
ensure(s) ==
    IF stmt[s] = NULL THEN OtherError("SQLite statement not initialized") ELSE NoExc

\* the handle of s was released by the engine and s still holds it
Dangling(s) == stmt[s] # NULL /\ engStmt[stmt[s]].st # "live"

\* columnIndices[columnName] = i
Put(m, k, v) == [x \in DOMAIN m \cup {k} |-> IF x = k THEN v ELSE m[x]]

\* Statement::initializeColumnIndices: the loop from column i on, over the
\* statement S[h]
RECURSIVE columnLoop(_, _, _, _)
columnLoop_FirstWins(S, h, i, m) ==
    IF i >= sqlite3_column_count(S, h) THEN m
    ELSE columnLoop(S, h, i + 1,
                    IF sqlite3_column_name(S, h, i) \in DOMAIN m THEN m
                    ELSE Put(m, sqlite3_column_name(S, h, i), i))

columnLoop(S, h, i, m) ==
    IF i >= sqlite3_column_count(S, h) THEN m
    ELSE columnLoop(S, h, i + 1, Put(m, sqlite3_column_name(S, h, i), i))

\* a NULL handle has no columns
initializeColumnIndices(S, h) == IF h = NULL THEN EmptyMap ELSE columnLoop(S, h, 0, EmptyMap)

\* Statement()
StatementCtor(s) ==
    /\ ~crashed /\ ~stmtLive[s]
    /\ stmtLive' = [stmtLive EXCEPT ![s] = TRUE]
    /\ stmt' = [stmt EXCEPT ![s] = NULL]
    /\ columnIndices' = [columnIndices EXCEPT ![s] = EmptyMap]
    /\ lastOp' = Op("Statement", s, 0, NoExc, Void)
    /\ calls' = <<>>
    /\ UNCHANGED <<connLive, db, engDb, engStmt, columnMetadata, crashed>>

\* SQLite::prepare: ensure(), then Statement(db, sql, persistent) constructs the
\* Statement s; when the constructor throws there is no object.  e is the
\* engine's outcome.
prepare(c, s, sql, e) ==
    /\ ~crashed /\ connLive[c] /\ ~stmtLive[s]
    /\ IF ensureDb(c) # NoExc
       THEN /\ lastOp' = Op("prepare", c, s, ensureDb(c), Void)
            /\ calls' = <<>>
            /\ UNCHANGED <<stmtLive, stmt, columnIndices, engStmt>>
       ELSE /\ FreeSts # {}
            /\ e \in SqlOutcomes(db[c], sql)
            /\ LET r == sqlite3_prepare_v3(db[c], sql, e) IN
               /\ engStmt' = r.S
               /\ calls' = <<Call("sqlite3_prepare_v3", db[c], FALSE, r.rc)>>
               /\ IF r.rc # SQLITE_OK
                  THEN /\ lastOp' = Op("prepare", c, s,
                              throwSQLiteError(r.err, "failed to prepare statement", sql),
                              Void)
                       /\ UNCHANGED <<stmtLive, stmt, columnIndices>>
                  ELSE /\ lastOp' = Op("prepare", c, s, NoExc, Void)
                       /\ stmtLive' = [stmtLive EXCEPT ![s] = TRUE]
                       /\ stmt' = [stmt EXCEPT ![s] = r.st]
                       /\ columnIndices' =
                             [columnIndices EXCEPT ![s] = initializeColumnIndices(r.S, r.st)]
    /\ UNCHANGED <<connLive, db, engDb, columnMetadata, crashed>>

\* SQLite::exec
exec(c, sql, e) ==
    /\ ~crashed /\ connLive[c]
    /\ IF ensureDb(c) # NoExc
       THEN /\ lastOp' = Op("exec", c, 0, ensureDb(c), Void)
            /\ calls' = <<>>
       ELSE /\ e \in SqlOutcomes(db[c], sql)
            /\ calls' = <<Call("sqlite3_exec", db[c], FALSE, e.code)>>
            /\ lastOp' = Op("exec", c, 0,
                          IF e.code # SQLITE_OK
                          THEN throwSQLiteError(e, "failed to execute SQL query", sql)
                          ELSE NoExc, Void)
    /\ UNCHANGED <<connLive, db, stmtLive, stmt, columnIndices, engDb, engStmt,
                   columnMetadata, crashed>>

\* Statement::finalize on s: the field, the engine, the exception and the engine
\* calls after it.  sqlite3_finalize releases the handle even when it returns an
\* error; sqlite3_db_handle(stmt) then reads released memory, and so does any
\* call on a handle s kept after that: u is what such a read produces.
finalizeRes(s, u) ==
    LET h == stmt[s] IN
    IF h = NULL
    THEN [stmt |-> NULL, S |-> engStmt, exc |-> NoExc, calls |-> <<>>,
          crash |-> FALSE]
    ELSE IF ~Dangling(s)
    THEN LET r == sqlite3_finalize(h) IN
         IF r.rc # SQLITE_OK
         THEN [stmt |-> h, S |-> r.S,
               exc |-> IF u.crash THEN NoExc
                       ELSE throwSQLiteError(u.err, "failed to finalize statement", ""),
               calls |-> <<Call("sqlite3_finalize", h, FALSE, r.rc),
                           Call("sqlite3_db_handle", h, TRUE, 0)>>,
               crash |-> u.crash]
         ELSE [stmt |-> NULL, S |-> r.S, exc |-> NoExc,
               calls |-> <<Call("sqlite3_finalize", h, FALSE, r.rc)>>, crash |-> FALSE]
    ELSE IF u.crash
    THEN [stmt |-> h, S |-> engStmt, exc |-> NoExc,
          calls |-> <<Call("sqlite3_finalize", h, TRUE, u.err.code)>>, crash |-> TRUE]
    ELSE IF u.err.code # SQLITE_OK
    THEN [stmt |-> h, S |-> engStmt,
          exc |-> throwSQLiteError(u.err, "failed to finalize statement", ""),
          calls |-> <<Call("sqlite3_finalize", h, TRUE, u.err.code),
                      Call("sqlite3_db_handle", h, TRUE, 0)>>,
          crash |-> FALSE]
    ELSE [stmt |-> NULL, S |-> engStmt, exc |-> NoExc,
          calls |-> <<Call("sqlite3_finalize", h, TRUE, u.err.code)>>, crash |-> FALSE]

\* Statement::finalize
finalize(s, u) ==
    /\ ~crashed /\ stmtLive[s]
    /\ LET r == finalizeRes(s, u) IN
       /\ stmt' = [stmt EXCEPT ![s] = r.stmt]
       /\ engStmt' = r.S
       /\ calls' = r.calls
       /\ lastOp' = Op("finalize", s, 0, r.exc, Void)
       /\ crashed' = r.crash
    /\ UNCHANGED <<connLive, db, stmtLive, columnIndices, engDb, columnMetadata>>

\* Statement::~Statement: finalize(); the destructor is noexcept, so an
\* exception leaving finalize() ends the process (std::terminate)
StatementDtor(s, u) ==
    /\ ~crashed /\ stmtLive[s]
    /\ LET r == finalizeRes(s, u)
           dead == r.crash \/ r.exc # NoExc
       IN
       /\ stmt' = [stmt EXCEPT ![s] = r.stmt]
       /\ engStmt' = r.S
       /\ calls' = r.calls
       /\ lastOp' = Op("~Statement", s, 0, r.exc, Void)
       /\ crashed' = dead
       /\ stmtLive' = [stmtLive EXCEPT ![s] = dead]
       /\ columnIndices' = [columnIndices EXCEPT ![s] = IF dead THEN @ ELSE EmptyMap]
    /\ UNCHANGED <<connLive, db, engDb, columnMetadata>>

\* Statement(Statement&& other): dst is the object constructed, src is other.
\* columnIndices(other.columnIndices) copies the map: other keeps its own.
StatementMoveCtor_KeepsSource(src, dst) ==
    /\ ~crashed /\ stmtLive[src] /\ ~stmtLive[dst]
    /\ stmtLive' = [stmtLive EXCEPT ![dst] = TRUE]
    /\ stmt' = [stmt EXCEPT ![dst] = stmt[src]]
    /\ columnIndices' = [columnIndices EXCEPT ![dst] = columnIndices[src]]
    /\ lastOp' = Op("Statement(&&)", dst, src, NoExc, Void)
    /\ calls' = <<>>
    /\ UNCHANGED <<connLive, db, engDb, engStmt, columnMetadata, crashed>>

StatementMoveCtor(src, dst) ==
    /\ ~crashed /\ stmtLive[src] /\ ~stmtLive[dst]
    /\ stmtLive' = [stmtLive EXCEPT ![dst] = TRUE]
    /\ stmt' = [stmt EXCEPT ![dst] = stmt[src], ![src] = NULL]
    /\ columnIndices' = [columnIndices EXCEPT ![dst] = columnIndices[src]]
    /\ lastOp' = Op("Statement(&&)", dst, src, NoExc, Void)
    /\ calls' = <<>>
    /\ UNCHANGED <<connLive, db, engDb, engStmt, columnMetadata, crashed>>

\* Statement::operator=(Statement&& other), noexcept: dst is *this, src is
\* other; an exception leaving finalize() ends the process.  std::move of the
\* map leaves other's map valid but unspecified: left is what it then holds,
\* nothing or what it held.
StatementMoveAssign(src, dst, u, left) ==
    /\ ~crashed /\ stmtLive[src] /\ stmtLive[dst]
    /\ left \in {EmptyMap, columnIndices[src]}
    /\ IF dst # src
       THEN LET r == finalizeRes(dst, u)
                dead == r.crash \/ r.exc # NoExc
            IN
            /\ engStmt' = r.S
            /\ calls' = r.calls
            /\ lastOp' = Op("Statement=", dst, src, r.exc, Void)
            /\ crashed' = dead
            /\ IF dead
               THEN /\ stmt' = [stmt EXCEPT ![dst] = r.stmt]
                    /\ UNCHANGED columnIndices
               ELSE /\ stmt' = [stmt EXCEPT ![dst] = stmt[src], ![src] = NULL]
                    /\ columnIndices' = [columnIndices EXCEPT
                                            ![dst] = columnIndices[src], ![src] = left]
       ELSE /\ lastOp' = Op("Statement=", dst, src, NoExc, Void)
            /\ calls' = <<>>
            /\ UNCHANGED <<stmt, columnIndices, engStmt, crashed>>
    /\ UNCHANGED <<connLive, db, stmtLive, engDb, columnMetadata>>

\* an engine call fn made by s on a handle the engine has released: it reads
\* released memory.  The process crashes, or the call returns what u.err says;
\* an operation with a failure message then classifies u.err.
StaleRes(s, fn, message, u) ==
    LET throws == ~u.crash /\ message # "" /\ u.err.code # SQLITE_OK IN
    [exc |-> IF throws THEN throwSQLiteError(u.err, message, "")
             ELSE NoExc,
     calls |-> IF throws
               THEN <<Call(fn, stmt[s], TRUE, u.err.code), Call("sqlite3_db_handle", stmt[s], TRUE, 0)>>
               ELSE <<Call(fn, stmt[s], TRUE, u.err.code)>>,
     crash |-> u.crash]

\* Statement::step on s: e is the engine's outcome
stepRes_Retries(s, e, u) ==
    IF ensure(s) # NoExc
    THEN [S |-> engStmt, exc |-> ensure(s), ret |-> Void, calls |-> <<>>,
          crash |-> FALSE]
    ELSE IF Dangling(s)
    THEN LET r == StaleRes(s, "sqlite3_step", "failed to step statement", u) IN
         [S |-> engStmt, exc |-> r.exc, ret |-> Void, calls |-> r.calls,
          crash |-> r.crash]
    ELSE LET r == sqlite3_step(stmt[s], e) IN
         IF r.rc = SQLITE_ROW
         THEN [S |-> r.S, exc |-> NoExc, ret |-> RInt(1),
               calls |-> <<Call("sqlite3_step", stmt[s], FALSE, r.rc)>>, crash |-> FALSE]
         ELSE IF r.rc = SQLITE_DONE
         THEN [S |-> r.S, exc |-> NoExc, ret |-> RInt(0),
               calls |-> <<Call("sqlite3_step", stmt[s], FALSE, r.rc)>>, crash |-> FALSE]
         ELSE [S |-> r.S,
               exc |-> throwSQLiteError(r.err, "failed to step statement", ""),
               ret |-> Void,
               calls |-> <<Call("sqlite3_step", stmt[s], FALSE, r.rc),
                           Call("sqlite3_step", stmt[s], FALSE, r.rc),
                           Call("sqlite3_db_handle", stmt[s], FALSE, 0)>>,
               crash |-> FALSE]

stepRes(s, e, u) ==
    IF ensure(s) # NoExc
    THEN [S |-> engStmt, exc |-> ensure(s), ret |-> Void, calls |-> <<>>,
          crash |-> FALSE]
    ELSE IF Dangling(s)
    THEN LET r == StaleRes(s, "sqlite3_step", "failed to step statement", u) IN
         [S |-> engStmt, exc |-> r.exc, ret |-> Void, calls |-> r.calls,
          crash |-> r.crash]
    ELSE LET r == sqlite3_step(stmt[s], e) IN
         IF r.rc = SQLITE_ROW
         THEN [S |-> r.S, exc |-> NoExc, ret |-> RInt(1),
               calls |-> <<Call("sqlite3_step", stmt[s], FALSE, r.rc)>>, crash |-> FALSE]
         ELSE IF r.rc = SQLITE_DONE
         THEN [S |-> r.S, exc |-> NoExc, ret |-> RInt(0),
               calls |-> <<Call("sqlite3_step", stmt[s], FALSE, r.rc)>>, crash |-> FALSE]
         ELSE [S |-> r.S,
               exc |-> throwSQLiteError(r.err, "failed to step statement", ""),
               ret |-> Void,
               calls |-> <<Call("sqlite3_step", stmt[s], FALSE, r.rc),
                           Call("sqlite3_db_handle", stmt[s], FALSE, 0)>>,
               crash |-> FALSE]

\* Statement::step; returns true (1) or false (0)
step(s, e, u) ==
    /\ ~crashed /\ stmtLive[s]
    /\ LET r == stepRes(s, e, u) IN
       /\ engStmt' = r.S
       /\ calls' = r.calls
       /\ lastOp' = Op("step", s, 0, r.exc, r.ret)
       /\ crashed' = r.crash
    /\ UNCHANGED <<connLive, db, stmtLive, stmt, columnIndices, engDb, columnMetadata>>

resetRes_KeepsPosition(s, u) ==
    IF ensure(s) # NoExc
    THEN [S |-> engStmt, exc |-> ensure(s), calls |-> <<>>, crash |-> FALSE]
    ELSE IF Dangling(s)
    THEN LET r == StaleRes(s, "sqlite3_reset", "failed to reset statement", u) IN
         [S |-> engStmt, exc |-> r.exc, calls |-> r.calls, crash |-> r.crash]
    ELSE [S |-> engStmt, exc |-> NoExc, calls |-> <<>>, crash |-> FALSE]

\* Statement::reset on s
resetRes(s, u) ==
    IF ensure(s) # NoExc
    THEN [S |-> engStmt, exc |-> ensure(s), calls |-> <<>>, crash |-> FALSE]
    ELSE IF Dangling(s)
    THEN LET r == StaleRes(s, "sqlite3_reset", "failed to reset statement", u) IN
         [S |-> engStmt, exc |-> r.exc, calls |-> r.calls, crash |-> r.crash]
    ELSE LET r == sqlite3_reset(stmt[s]) IN
         IF r.rc # SQLITE_OK
         THEN [S |-> r.S,
               exc |-> throwSQLiteError(r.err, "failed to reset statement", ""),
               calls |-> <<Call("sqlite3_reset", stmt[s], FALSE, r.rc),
                           Call("sqlite3_db_handle", stmt[s], FALSE, 0)>>,
               crash |-> FALSE]
         ELSE [S |-> r.S, exc |-> NoExc,
               calls |-> <<Call("sqlite3_reset", stmt[s], FALSE, r.rc)>>, crash |-> FALSE]

\* Statement::reset
reset(s, u) ==
    /\ ~crashed /\ stmtLive[s]
    /\ LET r == resetRes(s, u) IN
       /\ engStmt' = r.S
       /\ calls' = r.calls
       /\ lastOp' = Op("reset", s, 0, r.exc, Void)
       /\ crashed' = r.crash
    /\ UNCHANGED <<connLive, db, stmtLive, stmt, columnIndices, engDb, columnMetadata>>

\* Statement::clearBindings on s, with the engine's statements in state S
clearBindingsRes(S, s, u) ==
    IF ensure(s) # NoExc
    THEN [S |-> S, exc |-> ensure(s), calls |-> <<>>, crash |-> FALSE]
    ELSE IF Dangling(s)
    THEN LET r == StaleRes(s, "sqlite3_clear_bindings", "failed to clear bindings", u) IN
         [S |-> S, exc |-> r.exc, calls |-> r.calls, crash |-> r.crash]
    ELSE LET r == sqlite3_clear_bindings(S, stmt[s]) IN
         IF r.rc # SQLITE_OK
         THEN [S |-> r.S, exc |-> throwSQLiteError(r.err, "failed to clear bindings", ""),
               calls |-> <<Call("sqlite3_clear_bindings", stmt[s], FALSE, r.rc),
                           Call("sqlite3_db_handle", stmt[s], FALSE, 0)>>,
               crash |-> FALSE]
         ELSE [S |-> r.S, exc |-> NoExc,
               calls |-> <<Call("sqlite3_clear_bindings", stmt[s], FALSE, r.rc)>>,
               crash |-> FALSE]

\* Statement::clearBindings
clearBindings(s, u) ==
    /\ ~crashed /\ stmtLive[s]
    /\ LET r == clearBindingsRes(engStmt, s, u) IN
       /\ engStmt' = r.S
       /\ calls' = r.calls
       /\ lastOp' = Op("clearBindings", s, 0, r.exc, Void)
       /\ crashed' = r.crash
    /\ UNCHANGED <<connLive, db, stmtLive, stmt, columnIndices, engDb, columnMetadata>>

reuse_ClearsAfterFailure(s, u, u2) ==
    /\ ~crashed /\ stmtLive[s]
    /\ LET r1 == resetRes(s, u)
           r2 == clearBindingsRes(r1.S, s, u2)
           r == IF r1.crash THEN r1
                ELSE [r2 EXCEPT !.calls = r1.calls \o r2.calls,
                                !.exc = IF r1.exc # NoExc THEN r1.exc ELSE r2.exc]
       IN
       /\ engStmt' = r.S
       /\ calls' = r.calls
       /\ lastOp' = Op("reuse", s, 0, r.exc, Void)
       /\ crashed' = r.crash
    /\ UNCHANGED <<connLive, db, stmtLive, stmt, columnIndices, engDb, columnMetadata>>

\* Statement::reuse: reset(); clearBindings();  an exception leaving reset()
\* leaves reuse() too.  u and u2 are what the reads of released memory in the
\* one and in the other produce.
reuse(s, u, u2) ==
    /\ ~crashed /\ stmtLive[s]
    /\ LET r1 == resetRes(s, u)
           r2 == clearBindingsRes(r1.S, s, u2)
           r == IF r1.exc # NoExc \/ r1.crash THEN r1
                ELSE [r2 EXCEPT !.calls = r1.calls \o r2.calls]
       IN
       /\ engStmt' = r.S
       /\ calls' = r.calls
       /\ lastOp' = Op("reuse", s, 0, r.exc, Void)
       /\ crashed' = r.crash
    /\ UNCHANGED <<connLive, db, stmtLive, stmt, columnIndices, engDb, columnMetadata>>

\* the body shared by the overloads of Statement::bind(int index, ...) on s:
\* ensure(), the engine call fn whose outcome on a live handle is r, and the
\* error raised with message when it fails; gives the engine's statements, the
\* exception and the engine calls
bindWith(s, fn, message, r, u) ==
    IF ensure(s) # NoExc
    THEN [S |-> engStmt, exc |-> ensure(s), calls |-> <<>>, crash |-> FALSE]
    ELSE IF Dangling(s)
    THEN LET x == StaleRes(s, fn, message, u) IN
         [S |-> engStmt, exc |-> x.exc, calls |-> x.calls, crash |-> x.crash]
    ELSE IF r.rc # SQLITE_OK
         THEN [S |-> r.S, exc |-> throwSQLiteError(r.err, message, ""),
               calls |-> <<Call(fn, stmt[s], FALSE, r.rc),
                           Call("sqlite3_db_handle", stmt[s], FALSE, 0)>>,
               crash |-> FALSE]
         ELSE [S |-> r.S, exc |-> NoExc,
               calls |-> <<Call(fn, stmt[s], FALSE, r.rc)>>,
               crash |-> FALSE]

\* Statement::bind(int index, int value) on s
bindRes(s, index, value, u) ==
    bindWith(s, "sqlite3_bind_int", "failed to bind int",
             sqlite3_bind_int(stmt[s], index, value), u)

\* Statement::bind(int index, int64_t value) on s
bindInt64Res(s, index, value, u) ==
    bindWith(s, "sqlite3_bind_int64", "failed to bind int64",
             sqlite3_bind_int64(stmt[s], index, value), u)

\* Statement::bind(int index, const std::string& value) on s: value.c_str(),
\* value.size(), SQLITE_TRANSIENT; later is what the caller's buffer holds
\* when the statement runs
bindTextRes_Static(s, index, value, later, u) ==
    bindWith(s, "sqlite3_bind_text", "failed to bind text",
             sqlite3_bind_text(stmt[s], index, value, Len(value), "SQLITE_STATIC", later),
             u)

bindTextRes(s, index, value, later, u) ==
    bindWith(s, "sqlite3_bind_text", "failed to bind text",
             sqlite3_bind_text(stmt[s], index, value, Len(value), "SQLITE_TRANSIENT",
                               later),
             u)

\* Statement::bind(int index, const Blob& blob) on s: blob.data, blob.size,
\* SQLITE_TRANSIENT
bindBlobRes(s, index, blob, later, u) ==
    bindWith(s, "sqlite3_bind_blob", "failed to bind blob",
             sqlite3_bind_blob(stmt[s], index, blob.data, blob.size, "SQLITE_TRANSIENT",
                               later),
             u)

\* a bind overload called op ended as r
bound(s, op, r) ==
    /\ ~crashed /\ stmtLive[s]
    /\ engStmt' = r.S
    /\ calls' = r.calls
    /\ lastOp' = Op(op, s, 0, r.exc, Void)
    /\ crashed' = r.crash
    /\ UNCHANGED <<connLive, db, stmtLive, stmt, columnIndices, engDb, columnMetadata>>

\* Statement::bind(int index, int value)
bind(s, index, value, u) == bound(s, "bind", bindRes(s, index, value, u))

\* Statement::bind(int index, int64_t value)
bindInt64(s, index, value, u) == bound(s, "bind(int64)", bindInt64Res(s, index, value, u))

\* Statement::bind(int index, const std::string& value)
bindText(s, index, value, later, u) ==
    bound(s, "bind(text)", bindTextRes(s, index, value, later, u))

\* Statement::bind(int index, const Blob& blob)
bindBlob(s, index, blob, later, u) ==
    bound(s, "bind(blob)", bindBlobRes(s, index, blob, later, u))

\* Statement::getParamIndex on s: the exception, the index returned and the
\* engine calls.  On a released handle the call reads released memory: the
\* process crashes, or the name is not found.
getParamIndexRes_NoCheck(s, paramName, u) ==
    IF ensure(s) # NoExc
    THEN [exc |-> ensure(s), ret |-> Void, calls |-> <<>>, crash |-> FALSE]
    ELSE IF Dangling(s)
    THEN LET r == StaleRes(s, "sqlite3_bind_parameter_index", "", u) IN
         [exc |-> IF u.crash THEN NoExc
                  ELSE OtherError("parameter not found: " \o paramName),
          ret |-> Void, calls |-> r.calls, crash |-> r.crash]
    ELSE LET index == sqlite3_bind_parameter_index(stmt[s], paramName) IN
         [exc |-> NoExc, ret |-> RInt(index),
          calls |-> <<Call("sqlite3_bind_parameter_index", stmt[s], FALSE, 0)>>,
          crash |-> FALSE]

getParamIndexRes(s, paramName, u) ==
    IF ensure(s) # NoExc
    THEN [exc |-> ensure(s), ret |-> Void, calls |-> <<>>, crash |-> FALSE]
    ELSE IF Dangling(s)
    THEN LET r == StaleRes(s, "sqlite3_bind_parameter_index", "", u) IN
         [exc |-> IF u.crash THEN NoExc
                  ELSE OtherError("parameter not found: " \o paramName),
          ret |-> Void, calls |-> r.calls, crash |-> r.crash]
    ELSE LET index == sqlite3_bind_parameter_index(stmt[s], paramName) IN
         [exc |-> IF index = 0
                  THEN OtherError("parameter not found: " \o paramName)
                  ELSE NoExc,
          ret |-> IF index = 0 THEN Void ELSE RInt(index),
          calls |-> <<Call("sqlite3_bind_parameter_index", stmt[s], FALSE, 0)>>,
          crash |-> FALSE]

\* Statement::getParamIndex
getParamIndex(s, paramName, u) ==
    /\ ~crashed /\ stmtLive[s]
    /\ LET r == getParamIndexRes(s, paramName, u) IN
       /\ lastOp' = Op("getParamIndex", s, 0, r.exc, r.ret)
       /\ calls' = r.calls
       /\ crashed' = r.crash
    /\ UNCHANGED <<connLive, db, stmtLive, stmt, columnIndices, engDb, engStmt,
                   columnMetadata>>

\* Statement::param(const std::string& paramName): the Parameter of the index
\* getParamIndex gives
paramNamed(s, paramName, u) ==
    /\ ~crashed /\ stmtLive[s]
    /\ LET r == getParamIndexRes(s, paramName, u) IN
       /\ lastOp' = Op("param(name)", s, 0, r.exc, r.ret)
       /\ calls' = r.calls
       /\ crashed' = r.crash
    /\ UNCHANGED <<connLive, db, stmtLive, stmt, columnIndices, engDb, engStmt,
                   columnMetadata>>

\* Statement::bind(const std::string& name, int value):
\* bind(getParamIndex(name), value)
bindNamed(s, name, value, u) ==
    /\ ~crashed /\ stmtLive[s]
    /\ LET ix == getParamIndexRes(s, name, u)
           b == bindRes(s, ix.ret.i, value, u)
           r == IF ix.exc # NoExc \/ ix.crash
                THEN [S |-> engStmt, exc |-> ix.exc, calls |-> ix.calls, crash |-> ix.crash]
                ELSE [b EXCEPT !.calls = ix.calls \o b.calls]
       IN
       /\ engStmt' = r.S
       /\ calls' = r.calls
       /\ lastOp' = Op("bind(name)", s, 0, r.exc, Void)
       /\ crashed' = r.crash
    /\ UNCHANGED <<connLive, db, stmtLive, stmt, columnIndices, engDb, columnMetadata>>

\* Statement::getParamName
getParamName(s, index, u) ==
    /\ ~crashed /\ stmtLive[s]
    /\ IF ensure(s) # NoExc
       THEN /\ lastOp' = Op("getParamName", s, 0, ensure(s), Void)
            /\ calls' = <<>>
            /\ UNCHANGED crashed
       ELSE IF Dangling(s)
       THEN LET r == StaleRes(s, "sqlite3_bind_parameter_name", "", u) IN
            /\ lastOp' = Op("getParamName", s, 0, NoExc, Void)
            /\ calls' = r.calls
            /\ crashed' = r.crash
       ELSE /\ lastOp' = Op("getParamName", s, 0, NoExc,
                          RStr(sqlite3_bind_parameter_name(stmt[s], index)))
            /\ calls' = <<Call("sqlite3_bind_parameter_name", stmt[s], FALSE, 0)>>
            /\ UNCHANGED crashed
    /\ UNCHANGED <<connLive, db, stmtLive, stmt, columnIndices, engDb, engStmt,
                   columnMetadata>>

\* Statement::columnCount
columnCount(s, u) ==
    /\ ~crashed /\ stmtLive[s]
    /\ IF ensure(s) # NoExc
       THEN /\ lastOp' = Op("columnCount", s, 0, ensure(s), Void)
            /\ calls' = <<>>
            /\ UNCHANGED crashed
       ELSE IF Dangling(s)
       THEN LET r == StaleRes(s, "sqlite3_column_count", "", u) IN
            /\ lastOp' = Op("columnCount", s, 0, NoExc, Void)
            /\ calls' = r.calls
            /\ crashed' = r.crash
       ELSE /\ lastOp' = Op("columnCount", s, 0, NoExc,
                          RInt(sqlite3_column_count(engStmt, stmt[s])))
            /\ calls' = <<Call("sqlite3_column_count", stmt[s], FALSE, 0)>>
            /\ UNCHANGED crashed
    /\ UNCHANGED <<connLive, db, stmtLive, stmt, columnIndices, engDb, engStmt,
                   columnMetadata>>

\* Statement::getColumnIndex on s: a lookup in the cached map, nothing else
getColumnIndexRes(s, columnName) ==
    IF columnName \in DOMAIN columnIndices[s]
    THEN [exc |-> NoExc, ret |-> RInt(columnIndices[s][columnName])]
    ELSE [exc |-> OtherError("column not found: " \o columnName), ret |-> Void]

\* Statement::getColumnIndex
getColumnIndex(s, columnName) ==
    /\ ~crashed /\ stmtLive[s]
    /\ lastOp' = Op("getColumnIndex", s, 0, getColumnIndexRes(s, columnName).exc,
                  getColumnIndexRes(s, columnName).ret)
    /\ calls' = <<>>
    /\ UNCHANGED <<connLive, db, stmtLive, stmt, columnIndices, engDb, engStmt,
                   columnMetadata, crashed>>

\* Statement::operator[](int index): the Column view of that index
columnAt(s, index) ==
    /\ ~crashed /\ stmtLive[s]
    /\ lastOp' = Op("operator[](int)", s, 0, NoExc, RInt(index))
    /\ calls' = <<>>
    /\ UNCHANGED <<connLive, db, stmtLive, stmt, columnIndices, engDb, engStmt,
                   columnMetadata, crashed>>

\* Statement::operator[](const std::string& columnName)
columnNamed(s, columnName) ==
    /\ ~crashed /\ stmtLive[s]
    /\ lastOp' = Op("operator[](name)", s, 0, getColumnIndexRes(s, columnName).exc,
                  getColumnIndexRes(s, columnName).ret)
    /\ calls' = <<>>
    /\ UNCHANGED <<connLive, db, stmtLive, stmt, columnIndices, engDb, engStmt,
                   columnMetadata, crashed>>

\* the typed reads and the metadata getters of Statement (and of Column, which
\* forwards to them)
TypedReads == {"getInt", "getInt64", "getDouble", "getString", "getBlob"}
PlainGetters == {"getColumnType", "getColumnDeclType", "getColumnName"}
MetadataGetters == {"getColumnOriginName", "getColumnTableName", "getColumnDatabaseName"}
Getters == TypedReads \cup PlainGetters \cup MetadataGetters

\* the getters that have an overload taking a column name
NamedGetters == Getters \ {"getColumnName"}

\* the engine calls of getter g
Primitives(g) ==
    CASE g = "getInt" -> <<"sqlite3_column_int">>
      [] g = "getInt64" -> <<"sqlite3_column_int64">>
      [] g = "getDouble" -> <<"sqlite3_column_double">>
      [] g = "getString" -> <<"sqlite3_column_text", "sqlite3_column_bytes">>
      [] g = "getBlob" -> <<"sqlite3_column_blob", "sqlite3_column_bytes">>
      [] g = "getColumnType" -> <<"sqlite3_column_type">>
      [] g = "getColumnDeclType" -> <<"sqlite3_column_decltype">>
      [] g = "getColumnName" -> <<"sqlite3_column_name">>
      [] g = "getColumnOriginName" -> <<"sqlite3_column_origin_name">>
      [] g = "getColumnTableName" -> <<"sqlite3_column_table_name">>
      [] g = "getColumnDatabaseName" -> <<"sqlite3_column_database_name">>

\* what getter g returns for column index of live handle h; the columns of the
\* texts of this model are expressions, with no declared type and no origin
columnRead(g, h, index) ==
    LET v == sqlite3_column_value(h, index) IN
    CASE g = "getInt" -> RInt(sqlite3_column_int(v))
      [] g = "getInt64" -> RInt64(sqlite3_column_int64(v))
      [] g = "getDouble" -> RInt64(sqlite3_column_double(v))
      [] g = "getString" ->
            RBytes(IF sqlite3_column_text(v).null THEN <<>>
                   ELSE SubSeq(sqlite3_column_text(v).b, 1, sqlite3_column_bytes(v)))
      [] g = "getBlob" -> RBlob(sqlite3_column_blob(v), sqlite3_column_bytes(v))
      [] g = "getColumnType" -> RStr(sqlite3_column_type(v))
      [] g = "getColumnName" -> RStr(sqlite3_column_name(engStmt, h, index))
      [] OTHER -> RStr("")

\* getter g of s at a column index
getRes(s, g, index, u) ==
    IF g \in MetadataGetters /\ ~columnMetadata
    THEN [exc |-> OtherError("column metadata not enabled, to enable, define SQLITE_ENABLE_COLUMN_METADATA"),
          ret |-> Void, calls |-> <<>>, crash |-> FALSE]
    ELSE IF ensure(s) # NoExc
    THEN [exc |-> ensure(s), ret |-> Void, calls |-> <<>>, crash |-> FALSE]
    ELSE [exc |-> NoExc,
          ret |-> IF Dangling(s) THEN Void ELSE columnRead(g, stmt[s], index),
          calls |-> [k \in 1..Len(Primitives(g)) |->
                        Call(Primitives(g)[k], stmt[s], Dangling(s), 0)],
          crash |-> Dangling(s) /\ u.crash]

\* getInt(int), getInt64(int), ..., getColumnDatabaseName(int)
get(s, g, index, u) ==
    /\ ~crashed /\ stmtLive[s]
    /\ LET r == getRes(s, g, index, u) IN
       /\ lastOp' = Op(g, s, 0, r.exc, r.ret)
       /\ calls' = r.calls
       /\ crashed' = r.crash
    /\ UNCHANGED <<connLive, db, stmtLive, stmt, columnIndices, engDb, engStmt,
                   columnMetadata>>

getByName_FirstColumn(s, g, name, u) ==
    /\ ~crashed /\ stmtLive[s]
    /\ LET ix == getColumnIndexRes(s, name)
           r == IF ix.exc # NoExc
                THEN [exc |-> ix.exc, ret |-> Void, calls |-> <<>>, crash |-> FALSE]
                ELSE getRes(s, g, 0, u)
       IN
       /\ lastOp' = Op(g \o "(name)", s, 0, r.exc, r.ret)
       /\ calls' = r.calls
       /\ crashed' = r.crash
    /\ UNCHANGED <<connLive, db, stmtLive, stmt, columnIndices, engDb, engStmt,
                   columnMetadata>>

\* getInt(name), ...: the getter at getColumnIndex(name)
getByName(s, g, name, u) ==
    /\ ~crashed /\ stmtLive[s]
    /\ LET ix == getColumnIndexRes(s, name)
           r == IF ix.exc # NoExc
                THEN [exc |-> ix.exc, ret |-> Void, calls |-> <<>>, crash |-> FALSE]
                ELSE getRes(s, g, ix.ret.i, u)
       IN
       /\ lastOp' = Op(g \o "(name)", s, 0, r.exc, r.ret)
       /\ calls' = r.calls
       /\ crashed' = r.crash
    /\ UNCHANGED <<connLive, db, stmtLive, stmt, columnIndices, engDb, engStmt,
                   columnMetadata>>

(***************************************************************************)
(* Specifications.  Spec is the life cycle of connections and statements:  *)
(* construction, open, prepare, moves, close, finalize and destruction,    *)
(* and two uses of a Statement that need no row.  SpecOps is one           *)
(* connection and one Statement with every outcome of the engine.          *)
(* SpecCols is one Statement with every way to read it.  SpecBind is one   *)
(* Statement with one parameter and every bind overload.  SpecFlags is one *)
(* connection opened with every combination of the open flags.  SpecMap is *)
(* two Statements prepared from different texts and moved into each other. *)
(***************************************************************************)
\* what a read of released memory may produce when s makes an engine call: it
\* matters only when s holds a released handle, or a handle whose last step
\* failed (finalize then releases it and reads it)
UBFor(s) ==
    IF stmt[s] # NULL /\ (Dangling(s) \/ engStmt[stmt[s]].rc # OkErr)
    THEN UB({OkErr, MisuseErr})
    ELSE {NoUB}

\* the inputs of Spec
BusyErr == [code |-> SQLITE_BUSY, ext |-> SQLITE_BUSY + 256, msg |-> "engine message",
            off |-> -1]
LifeSql == {"SELECT 1 AS a, 2 AS a"}
LifeFlags == operatorOr(OpenFlags.ReadWrite, OpenFlags.Create)
LifeOutcomes == {OkErr, BusyErr}

Next ==
    \/ \E c \in Conns : SQLiteCtor(c)
    \/ \E c \in Conns, e \in LifeOutcomes : SQLiteCtorOpen(c, LifeFlags, e)
    \/ \E c \in Conns, e \in LifeOutcomes : open(c, LifeFlags, e)
    \/ \E c \in Conns : close(c, BusyErr)
    \/ \E c \in Conns : SQLiteDtor(c, BusyErr)
    \/ \E src, dst \in Conns : SQLiteMoveCtor(src, dst)
    \/ \E src, dst \in Conns : SQLiteMoveAssign(src, dst, BusyErr)
    \/ \E c \in Conns, s \in Stmts, sql \in LifeSql, e \in LifeOutcomes : prepare(c, s, sql, e)
    \/ \E s \in Stmts : StatementCtor(s)
    \/ \E s \in Stmts : \E u \in UBFor(s) : finalize(s, u)
    \/ \E s \in Stmts : \E u \in UBFor(s) : StatementDtor(s, u)
    \/ \E src, dst \in Stmts : StatementMoveCtor(src, dst)
    \/ \E src, dst \in Stmts :
          \E u \in UBFor(dst), left \in {EmptyMap, columnIndices[src]} :
             StatementMoveAssign(src, dst, u, left)
    \/ \E s \in Stmts : \E u \in UBFor(s) : columnCount(s, u)
    \/ \E s \in Stmts : getColumnIndex(s, "a")

Spec == Init /\ [][Next]_vars

\* the inputs of SpecOps: the first connection and the first Statement, every
\* text and every outcome of the engine
OpsConn == CHOOSE c \in Conns : \A d \in Conns : c <= d
OpsStmt == CHOOSE s \in Stmts : \A r \in Stmts : s <= r
OpsOutcomes == EngineErrors \cup {OkErr}

NextOps ==
    \/ \E e \in OpsOutcomes : SQLiteCtorOpen(OpsConn, LifeFlags, e)
    \/ SQLiteCtor(OpsConn)
    \/ \E e \in OpsOutcomes : open(OpsConn, LifeFlags, e)
    \/ \E e \in CloseErrors : close(OpsConn, e)
    \/ \E sql \in SqlTexts, e \in OpsOutcomes : exec(OpsConn, sql, e)
    \/ \E sql \in SqlTexts, e \in OpsOutcomes : prepare(OpsConn, OpsStmt, sql, e)
    \/ StatementCtor(OpsStmt)
    \/ \E u \in UBFor(OpsStmt) : finalize(OpsStmt, u)
    \/ \E u \in UBFor(OpsStmt) : StatementDtor(OpsStmt, u)
    \/ \E e \in OpsOutcomes, u \in UBFor(OpsStmt) : step(OpsStmt, e, u)
    \/ \E u \in UBFor(OpsStmt) : reset(OpsStmt, u)
    \/ \E u \in UBFor(OpsStmt) : clearBindings(OpsStmt, u)
    \/ \E index \in 1..2, u \in UBFor(OpsStmt) : bind(OpsStmt, index, 7, u)
    \/ \E rc \in ConfigResults : configureSerialized(rc)

SpecOps == Init /\ [][NextOps]_vars

\* the inputs of SpecCols: one open connection, the Statements of the texts
\* that compile, a step that succeeds or finds the database busy, every way
\* to read a Statement, in both builds
ColsSql == {"SELECT 1 AS a, 2 AS a", "SELECT :x AS b"}
ColsGetters == Getters

InitCols == \E md \in BOOLEAN : Start(md)

NextCols ==
    \/ SQLiteCtorOpen(OpsConn, LifeFlags, OkErr)
    \/ \E sql \in ColsSql : prepare(OpsConn, OpsStmt, sql, OkErr)
    \/ StatementCtor(OpsStmt)
    \/ \E u \in UBFor(OpsStmt) : finalize(OpsStmt, u)
    \/ \E u \in UBFor(OpsStmt) : StatementDtor(OpsStmt, u)
    \/ \E e \in LifeOutcomes, u \in UBFor(OpsStmt) : step(OpsStmt, e, u)
    \/ \E u \in UBFor(OpsStmt) : reset(OpsStmt, u)
    \/ \E u \in UBFor(OpsStmt) : clearBindings(OpsStmt, u)
    \/ \E u, u2 \in UBFor(OpsStmt) : reuse(OpsStmt, u, u2)
    \/ \E index \in 1..2, u \in UBFor(OpsStmt) : bind(OpsStmt, index, 7, u)
    \/ \E n \in ParamNames, u \in UBFor(OpsStmt) : getParamIndex(OpsStmt, n, u)
    \/ \E index \in 1..2, u \in UBFor(OpsStmt) : getParamName(OpsStmt, index, u)
    \/ \E u \in UBFor(OpsStmt) : columnCount(OpsStmt, u)
    \/ \E n \in ColumnNames : getColumnIndex(OpsStmt, n)
    \/ \E index \in 0..1 : columnAt(OpsStmt, index)
    \/ \E n \in ColumnNames : columnNamed(OpsStmt, n)
    \/ \E g \in ColsGetters, index \in 0..1, u \in UBFor(OpsStmt) : get(OpsStmt, g, index, u)
    \/ \E g \in ColsGetters \cap NamedGetters, n \in ColumnNames, u \in UBFor(OpsStmt) :
          getByName(OpsStmt, g, n, u)
    \/ \E n \in ParamNames, u \in UBFor(OpsStmt) : paramNamed(OpsStmt, n, u)
    \/ \E n \in ParamNames, u \in UBFor(OpsStmt) : bindNamed(OpsStmt, n, 7, u)

SpecCols == InitCols /\ [][NextCols]_vars

\* the inputs of SpecBind: one open connection, one Statement of the text with
\* one parameter ?, each bind overload with values at the ends of its width,
\* empty and non-empty texts and blobs, a caller's buffer that holds something
\* else when the statement runs, and the typed reads of column 0
BindSql == "SELECT ?"
IntValues == {-2147483647 - 1, 7, 2147483647}
Int64Values == {[hi |-> 1, lo |-> 0], [hi |-> 2147483647, lo |-> -1],
                [hi |-> -2147483647 - 1, lo |-> 0]}
TextBuffers == {<<97, 98>>, <<49, 50>>, <<>>}
Blobs == {[data |-> [null |-> FALSE, b |-> <<1, 0, 2>>], size |-> 3],
          [data |-> [null |-> FALSE, b |-> <<>>], size |-> 0],
          [data |-> [null |-> TRUE, b |-> <<>>], size |-> 0]}
LaterBuffers == {<<>>, <<122, 122>>}
BindGetters == TypedReads \cup {"getColumnType"}

NextBind ==
    \/ SQLiteCtorOpen(OpsConn, LifeFlags, OkErr)
    \/ prepare(OpsConn, OpsStmt, BindSql, OkErr)
    \/ step(OpsStmt, OkErr, NoUB)
    \/ reset(OpsStmt, NoUB)
    \/ clearBindings(OpsStmt, NoUB)
    \/ \E value \in IntValues : bind(OpsStmt, 1, value, NoUB)
    \/ \E value \in Int64Values : bindInt64(OpsStmt, 1, value, NoUB)
    \/ \E value \in TextBuffers, later \in LaterBuffers :
          bindText(OpsStmt, 1, value, later, NoUB)
    \/ \E blob \in Blobs, later \in LaterBuffers :
          bindBlob(OpsStmt, 1, blob, later, NoUB)
    \/ \E g \in BindGetters : get(OpsStmt, g, 0, NoUB)

SpecBind == Init /\ [][NextBind]_vars

\* the inputs of SpecFlags: one connection constructed with every combination
\* of the ten flags, on an engine that opens whatever it does not refuse
FlagNames == {FlagLines[k][1] : k \in DOMAIN FlagLines}

\* the members of S combined with operator|, starting from None
RECURSIVE Combine(_)
Combine(S) ==
    IF S = {} THEN OpenFlags.None
    ELSE LET f == CHOOSE x \in S : TRUE IN
         operatorOr(Combine(S \ {f}), OpenFlags[f])

\* the subsets of the flags, numbered, and the combination of each
Subsets ==
    [n \in 0..(2^Len(FlagLines) - 1) |->
        {FlagLines[k][1] : k \in {j \in DOMAIN FlagLines : (n \div 2^(j - 1)) % 2 = 1}}]
Combined == [n \in DOMAIN Subsets |-> Combine(Subsets[n])]

NextFlags ==
    \/ \E n \in DOMAIN Subsets : SQLiteCtorOpen(OpsConn, Combined[n], OkErr)
    \/ SQLiteDtor(OpsConn, BusyErr)

SpecFlags == Init /\ [][NextFlags]_vars

\* the inputs of SpecMap: one open connection and two Statements, prepared from
\* texts with different columns, moved into each other, run, bound, reset and
\* released
MapSql == ColsSql

NextMap ==
    \/ SQLiteCtorOpen(OpsConn, LifeFlags, OkErr)
    \/ \E s \in Stmts, sql \in MapSql : prepare(OpsConn, s, sql, OkErr)
    \/ \E s \in Stmts : StatementCtor(s)
    \/ \E s \in Stmts : \E u \in UBFor(s) : finalize(s, u)
    \/ \E s \in Stmts : \E u \in UBFor(s) : StatementDtor(s, u)
    \/ \E src, dst \in Stmts : StatementMoveCtor(src, dst)
    \/ \E src, dst \in Stmts :
          \E u \in UBFor(dst), left \in {EmptyMap, columnIndices[src]} :
             StatementMoveAssign(src, dst, u, left)
    \/ \E s \in Stmts, e \in LifeOutcomes : \E u \in UBFor(s) : step(s, e, u)
    \/ \E s \in Stmts : \E u \in UBFor(s) : reset(s, u)
    \/ \E s \in Stmts : \E u \in UBFor(s) : clearBindings(s, u)
    \/ \E s \in Stmts : \E u \in UBFor(s) : bind(s, 1, 7, u)

SpecMap == Init /\ [][NextMap]_vars

(***************************************************************************)
(* Properties.                                                             *)
(***************************************************************************)
\* the kind of error the source's switch picks for a primary code
KindOfCode(code) ==
    CASE code = SQLITE_BUSY -> "BusyError"
      [] code = SQLITE_MISUSE -> "MisuseError"
      [] OTHER -> "Error"

\* the kind of error for a primary code when SQLITE_LOCKED (6) counts as busy
KindOfCodeBusyOrLocked(code) ==
    CASE code \in {SQLITE_BUSY, 6} -> "BusyError"
      [] code = SQLITE_MISUSE -> "MisuseError"
      [] OTHER -> "Error"

\* C1: a failing prepare(sql) or exec(sql) with a non-empty text raises a
\* SyntaxError carrying the text and the offset whenever the engine's error
\* offset is non-negative, whatever the primary code; BusyError, MisuseError
\* or base Error is raised only when the offset is negative.
C1_OffsetBeforeCode ==
    [][\A sql \in SqlTexts \ {""}, e \in EngineErrors :
          ( \/ /\ lastOp'.op = "prepare"
               /\ db[lastOp'.self] # NULL
               /\ prepare(lastOp'.self, lastOp'.other, sql, e)
            \/ /\ lastOp'.op = "exec"
               /\ db[lastOp'.self] # NULL
               /\ exec(lastOp'.self, sql, e) )
          => IF e.off >= 0
             THEN lastOp'.exc = SyntaxError(lastOp'.exc.message, e.msg, e.code, e.ext,
                                            sql, e.off)
             ELSE lastOp'.exc.kind \in {"BusyError", "MisuseError", "Error"}]_vars

\* a prepare failed with the busy code and a non-negative offset, and raised a
\* SyntaxError with the text and the offset
C1_Witness ==
    /\ lastOp.op = "prepare"
    /\ lastOp.exc.kind = "SyntaxError"
    /\ lastOp.exc.code = SQLITE_BUSY
    /\ lastOp.exc.sql = "SELEC 1"
    /\ lastOp.exc.off = 2

\* the failing engine calls of open, the opening constructor, prepare, exec and
\* step, classified with no non-negative offset, raise the error kindOf picks
\* for the primary code, carrying code, extended code and message unchanged;
\* and every error raised without an offset has the kind of its code
ClassifiedBy(kindOf(_)) ==
    /\ lastOp'.exc.kind \in {"BusyError", "MisuseError", "Error"}
          => lastOp'.exc.kind = kindOf(lastOp'.exc.code)
    /\ \A e \in EngineErrors :
          ( \/ lastOp'.op = "open" /\ open(lastOp'.self, LifeFlags, e)
            \/ lastOp'.op = "SQLite(name)" /\ SQLiteCtorOpen(lastOp'.self, LifeFlags, e)
            \/ /\ lastOp'.op = "prepare"
               /\ db[lastOp'.self] # NULL
               /\ \E sql \in SqlTexts :
                     (sql = "" \/ e.off < 0) /\ prepare(lastOp'.self, lastOp'.other, sql, e)
            \/ /\ lastOp'.op = "exec"
               /\ db[lastOp'.self] # NULL
               /\ \E sql \in SqlTexts : (sql = "" \/ e.off < 0) /\ exec(lastOp'.self, sql, e)
            \/ /\ lastOp'.op = "step"
               /\ stmt[lastOp'.self] # NULL
               /\ ~Dangling(lastOp'.self)
               /\ step(lastOp'.self, e, NoUB) )
          => lastOp'.exc = Error(kindOf(e.code), lastOp'.exc.message, e.msg, e.code, e.ext)

\* C2 (as the code has it): with no non-negative offset the error kind is
\* decided by the primary code alone: the busy code raises BusyError, the
\* misuse code raises MisuseError, every other code, the locked code (6)
\* included, raises the base Error; the error carries the engine's primary
\* code, extended code and message unchanged.
C2_KindByCode == [][ClassifiedBy(KindOfCode)]_vars

\* a step failed with the locked code and raised the base Error with that code
C2_Witness ==
    /\ lastOp.op = "step"
    /\ lastOp.exc.kind = "Error"
    /\ lastOp.exc.code = 6
    /\ lastOp.exc.ext = 6 + 256
    /\ calls[1].rc = 6

\* C2 as stated: a busy or locked code raises BusyError.
C2_BusyOrLocked == [][ClassifiedBy(KindOfCodeBusyOrLocked)]_vars

\* no two SQLite objects hold the same handle, and no two Statements
OneOwner ==
    /\ \A c1, c2 \in Conns :
          (c1 # c2 /\ connLive[c1] /\ connLive[c2] /\ db[c1] # NULL) => db[c1] # db[c2]
    /\ \A s1, s2 \in Stmts :
          (s1 # s2 /\ stmtLive[s1] /\ stmtLive[s2] /\ stmt[s1] # NULL) => stmt[s1] # stmt[s2]

\* a move that completed between two objects: the source holds no handle and
\* the destination holds the handle the source held
MoveTransfers ==
    /\ (lastOp'.op \in {"SQLite(&&)", "SQLite="} /\ lastOp'.self # lastOp'.other /\ ~crashed')
          => db'[lastOp'.other] = NULL /\ db'[lastOp'.self] = db[lastOp'.other]
    /\ (lastOp'.op \in {"Statement(&&)", "Statement="} /\ lastOp'.self # lastOp'.other
           /\ ~crashed')
          => stmt'[lastOp'.other] = NULL /\ stmt'[lastOp'.self] = stmt[lastOp'.other]

\* a move assignment of an object to itself leaves it holding what it held
SelfAssignKeeps ==
    /\ (lastOp'.op = "SQLite=" /\ lastOp'.self = lastOp'.other) => db' = db
    /\ (lastOp'.op = "Statement=" /\ lastOp'.self = lastOp'.other) => stmt' = stmt

\* C3: after any sequence of open, prepare, move construction, move
\* assignment (self-assignment included), close, finalize and destruction,
\* each handle is held by at most one Connection, or at most one Statement;
\* right after a move the source holds no handle and the destination holds
\* the handle the source held.
C3_OneOwner == [][OneOwner' /\ MoveTransfers /\ SelfAssignKeeps]_vars

\* a Statement holding a handle was move-assigned to another Statement, which
\* now holds that handle
C3_Witness ==
    /\ lastOp.op = "Statement="
    /\ lastOp.self # lastOp.other
    /\ ~crashed
    /\ stmt[lastOp.self] # NULL
    /\ stmt[lastOp.other] = NULL
    /\ calls # <<>>

\* C4: once every Connection has been destroyed, every database handle the
\* engine handed out has been passed to sqlite3_close, and none is passed to
\* it after it was closed; this includes a handle held when open() is called.
C4_EveryHandleClosedOnce ==
    [][ /\ ((\A c \in Conns : ~connLive'[c]) /\ ~crashed')
              => \A h \in DbHandles : engDb'[h].st \in {"free", "closed"}
        /\ \A i \in DOMAIN calls' :
              calls'[i].fn = "sqlite3_close" => engDb[calls'[i].h].st # "closed" ]_vars

\* C5: a statement handle that was passed to sqlite3_finalize, whatever that
\* returned, is never passed to another engine call.
C5_NoCallAfterFinalize == \A i \in DOMAIN calls : ~calls[i].stale

\* the operations of Statement that check the handle, by the name lastOp gives
\* them
GuardedOps ==
    {"bind", "getParamIndex", "getParamName", "step", "reset", "clearBindings", "reuse",
     "columnCount", "getColumnIndex", "operator[](int)", "operator[](name)"}
       \cup Getters \cup {g \o "(name)" : g \in Getters}

\* C6: every Statement operation other than move, destruction and finalize,
\* on a Statement whose handle is null, fails with the OtherError "not
\* initialized" and makes no engine call.
C6_NullHandleFails ==
    (lastOp.op \in GuardedOps /\ stmt[lastOp.self] = NULL)
       => (lastOp.exc = OtherError("SQLite statement not initialized") /\ calls = <<>>)

\* C7: after a move between two objects, the next use of the source (prepare
\* or exec on a Connection, a handle-checking operation on a Statement) fails
\* with the OtherError "not initialized", and destroying the source makes no
\* engine call and raises nothing.
C7_MovedFromFails ==
    [][ /\ (lastOp.op \in {"SQLite(&&)", "SQLite="} /\ lastOp.self # lastOp.other
               /\ lastOp'.self = lastOp.other)
              => /\ lastOp'.op \in {"prepare", "exec"}
                    => lastOp'.exc = OtherError("SQLite database connection not initialized")
                 /\ lastOp'.op = "~SQLite" => (calls' = <<>> /\ lastOp'.exc = NoExc)
        /\ (lastOp.op \in {"Statement(&&)", "Statement="} /\ lastOp.self # lastOp.other
               /\ lastOp'.self = lastOp.other)
              => /\ lastOp'.op \in GuardedOps
                    => lastOp'.exc = OtherError("SQLite statement not initialized")
                 /\ lastOp'.op = "~Statement" => (calls' = <<>> /\ lastOp'.exc = NoExc) ]_vars

\* C8: close() on a Connection holding a handle calls sqlite3_close on it; when
\* that fails, close() raises the classified error and the Connection still
\* holds the handle (so that a later close() calls sqlite3_close on it again);
\* the handle becomes empty only when sqlite3_close succeeds.
C8_FailedCloseKeepsHandle ==
    [][\A c \in Conns :
          (lastOp'.op = "close" /\ lastOp'.self = c /\ db[c] # NULL)
          => /\ Len(calls') = 1
             /\ calls'[1].fn = "sqlite3_close" /\ calls'[1].h = db[c]
             /\ IF calls'[1].rc # SQLITE_OK
                THEN /\ db'[c] = db[c]
                     /\ lastOp'.exc.kind = KindOfCode(calls'[1].rc)
                     /\ lastOp'.exc.code = calls'[1].rc
                ELSE /\ db'[c] = NULL
                     /\ lastOp'.exc = NoExc]_vars

\* close() failed on a Connection that has a Statement not finalized: it raised
\* BusyError and the Connection holds the handle it passed to sqlite3_close
C8_Witness ==
    /\ lastOp.op = "close"
    /\ lastOp.exc.kind = "BusyError"
    /\ Len(calls) = 1
    /\ calls[1].rc = SQLITE_BUSY
    /\ db[lastOp.self] = calls[1].h

\* C9: close() on a Connection that holds no handle makes no engine call,
\* raises nothing and changes nothing, so a second close() adds nothing to a
\* successful one.
C9_CloseIdempotent ==
    [][\A c \in Conns :
          (lastOp'.op = "close" /\ lastOp'.self = c /\ db[c] = NULL)
          => /\ calls' = <<>>
             /\ lastOp'.exc = NoExc
             /\ db' = db
             /\ engDb' = engDb]_vars

\* close() was called on a Connection without a handle, after the engine has
\* closed a handle
C9_Witness ==
    /\ lastOp.op = "close"
    /\ calls = <<>>
    /\ db[lastOp.self] = NULL
    /\ \E h \in DbHandles : engDb[h].st = "closed"

\* C10: step() on a prepared Statement calls sqlite3_step exactly once; it
\* returns true exactly when that reports a row, false exactly when it reports
\* completion, and otherwise raises the error classified by the code, never a
\* SyntaxError.
C10_StepOnce ==
    (lastOp.op = "step" /\ stmt[lastOp.self] # NULL /\ ~Dangling(lastOp.self))
    => LET rc == calls[1].rc IN
       /\ Cardinality({i \in DOMAIN calls : calls[i].fn = "sqlite3_step"}) = 1
       /\ calls[1].fn = "sqlite3_step" /\ calls[1].h = stmt[lastOp.self]
       /\ (lastOp.exc = NoExc /\ lastOp.ret = RInt(1)) <=> rc = SQLITE_ROW
       /\ (lastOp.exc = NoExc /\ lastOp.ret = RInt(0)) <=> rc = SQLITE_DONE
       /\ rc \notin {SQLITE_ROW, SQLITE_DONE}
             => (lastOp.exc.kind = KindOfCode(rc) /\ lastOp.exc.code = rc)

\* a step failed with the misuse code while the engine's error offset was not
\* negative, and raised MisuseError
C10_Witness ==
    /\ lastOp.op = "step"
    /\ lastOp.exc.kind = "MisuseError"
    /\ lastOp.exc.ext = SQLITE_MISUSE + 256
    /\ Len(calls) = 2
    /\ ~calls[1].stale

\* the names of the result columns and of the parameters of the statement s
\* holds, as the engine knows them
Seen(names) == {names[i] : i \in DOMAIN names}
Prepared(s) == stmt[s] # NULL /\ ~Dangling(s)

\* C11: on a prepared Statement, asking for a column by a name that is no
\* result column (getColumnIndex, operator[](name), every by-name getter) or
\* for a parameter by a name the engine does not resolve (getParamIndex,
\* param(name), bind(name, value)) raises OtherError and never an error with an
\* engine code; the failing bind(name, value) changes no binding.
C11_UnknownNameIsOtherError ==
    [][LET s == lastOp'.self
           op == lastOp'.op
       IN
       (op \in {"getColumnIndex", "operator[](name)", "getParamIndex",
                "param(name)", "bind(name)"}
              \cup {g \o "(name)" : g \in NamedGetters}
        /\ Prepared(s))
       => /\ \A n \in ColumnNames \ Seen(Columns(engStmt[stmt[s]].sql)) :
                (\/ getColumnIndex(s, n)
                 \/ columnNamed(s, n)
                 \/ \E g \in NamedGetters : getByName(s, g, n, NoUB))
                => /\ lastOp'.exc = OtherError("column not found: " \o n)
                   /\ calls' = <<>>
          /\ \A n \in ParamNames \ Seen(Params(engStmt[stmt[s]].sql)) :
                (\/ getParamIndex(s, n, NoUB)
                 \/ paramNamed(s, n, NoUB)
                 \/ bindNamed(s, n, 7, NoUB))
                => /\ lastOp'.exc = OtherError("parameter not found: " \o n)
                   /\ \A k \in DOMAIN calls' : calls'[k].fn = "sqlite3_bind_parameter_index"
                   /\ engStmt' = engStmt
          /\ op # "bind(name)" => lastOp'.exc.kind \notin EngineKinds
      ]_vars

\* bind(":nope", 7) failed with OtherError on a statement whose parameter :x
\* holds a binding, and the binding is still there
C11_Witness ==
    /\ lastOp.op = "bind(name)"
    /\ lastOp.exc = OtherError("parameter not found: :nope")
    /\ Prepared(lastOp.self)
    /\ engStmt[stmt[lastOp.self]].sql = "SELECT :x AS b"
    /\ engStmt[stmt[lastOp.self]].bind[1] = SignExtend(7)

\* the execution of the statement s holds is on a row
OnRow(s) ==
    engStmt[stmt[s]].pos \in 1..RowCount(engStmt[stmt[s]].sql)

\* C12: on a prepared Statement positioned on a row, for every name n of a
\* result column, each by-name read (getInt, getInt64, getDouble, getString,
\* getBlob, getColumnType, getColumnDeclType, the metadata getters, and the
\* Column of operator[](n)) gives what the by-index read at getColumnIndex(n)
\* gives, and the column at getColumnIndex(n) is named n.
C12_ByNameIsByIndex ==
    [][LET s == lastOp'.self
           op == lastOp'.op
       IN
       (op \in {"operator[](name)"} \cup {g \o "(name)" : g \in NamedGetters}
        /\ Prepared(s) /\ OnRow(s))
       => \A n \in Seen(Columns(engStmt[stmt[s]].sql)) :
             LET ix == getColumnIndexRes(s, n) IN
             /\ ix.exc = NoExc
             /\ sqlite3_column_name(engStmt, stmt[s], ix.ret.i) = n
             /\ getRes(s, "getColumnName", ix.ret.i, NoUB).ret = RStr(n)
             /\ columnNamed(s, n) => (lastOp'.exc = NoExc /\ lastOp'.ret = ix.ret)
             /\ \A g \in NamedGetters :
                   getByName(s, g, n, NoUB)
                   => /\ lastOp'.exc = getRes(s, g, ix.ret.i, NoUB).exc
                      /\ lastOp'.ret = getRes(s, g, ix.ret.i, NoUB).ret
                      /\ calls' = getRes(s, g, ix.ret.i, NoUB).calls
                      /\ g \notin MetadataGetters
                            => /\ lastOp'.exc = NoExc
                               /\ lastOp'.ret = columnRead(g, stmt[s], ix.ret.i)
      ]_vars

\* getInt("a") on the row of a statement with two columns named a read the
\* second column, the one getColumnIndex("a") names
C12_Witness ==
    /\ lastOp.op = "getInt(name)"
    /\ lastOp.exc = NoExc
    /\ lastOp.ret = RInt(2)
    /\ Prepared(lastOp.self) /\ OnRow(lastOp.self)
    /\ columnIndices[lastOp.self] = [n \in {"a"} |-> 1]
    /\ calls = <<Call("sqlite3_column_int", stmt[lastOp.self], FALSE, 0)>>

\* the execution state of handle h when its text was prepared and the
\* bindings it holds now were made: no row delivered, no failed step
AtStart(h) == [engStmt[h] EXCEPT !.pos = 0, !.rc = OkErr]

\* C13: with the bindings unchanged, reset() on a prepared Statement puts the
\* execution back where the first one started, however far the previous one
\* had advanced; and from the start the k-th step() returns true exactly while
\* k is at most the number of rows of the statement, then false, so the
\* results up to the first false repeat those of the first execution.
C13_ResetRepeats ==
    [][LET s == lastOp'.self
           h == stmt[s]
       IN
       /\ (lastOp'.op = "reset" /\ Prepared(s))
          => /\ engStmt'[h] = AtStart(h)
             /\ engStmt'[h].bind = engStmt[h].bind
             /\ calls' # <<>>
             /\ calls'[1] = Call("sqlite3_reset", h, FALSE, engStmt[h].rc.code)
             /\ lastOp'.exc = NoExc <=> engStmt[h].rc = OkErr
       /\ (lastOp'.op = "step" /\ Prepared(s) /\ lastOp'.exc = NoExc
           /\ engStmt[h].pos <= RowCount(engStmt[h].sql))
          => /\ lastOp'.ret = RInt(1) <=> engStmt[h].pos < RowCount(engStmt[h].sql)
             /\ lastOp'.ret = RInt(0) <=> engStmt[h].pos = RowCount(engStmt[h].sql)
             /\ engStmt'[h] = [engStmt[h] EXCEPT !.pos = @ + 1, !.rc = OkErr]
       /\ (lastOp.op = "reset" /\ lastOp'.op = "step" /\ lastOp.self = s
           /\ Prepared(s) /\ lastOp'.exc = NoExc)
          => (lastOp'.ret = RInt(1) <=> RowCount(engStmt[h].sql) > 0)
      ]_vars

\* reset() returned on a statement whose parameter holds the value bound
\* before the execution that was reset
C13_Witness ==
    /\ lastOp.op = "reset"
    /\ lastOp.exc = NoExc
    /\ Prepared(lastOp.self)
    /\ engStmt[stmt[lastOp.self]].pos = 0
    /\ engStmt[stmt[lastOp.self]].bind = <<SignExtend(7)>>
    /\ calls = <<Call("sqlite3_reset", stmt[lastOp.self], FALSE, SQLITE_OK)>>

\* C14: configureSerialized() never raises; it returns nothing exactly when
\* the engine accepts the configuration, and otherwise returns the error
\* classified by the engine's code (BusyError for busy, MisuseError for
\* misuse, the base Error for any other code) that carries this code.
C14_ConfigureReturnsClassified ==
    lastOp.op = "configureSerialized"
    => /\ lastOp.exc = NoExc
       /\ ~crashed
       /\ lastOp.ret = NoExc <=> calls[1].rc = SQLITE_OK
       /\ calls[1].rc # SQLITE_OK
             => /\ lastOp.ret.kind = KindOfCode(calls[1].rc)
                /\ lastOp.ret.code = calls[1].rc

\* C15: prepare(sql) and exec(sql) on a Connection without a handle raise
\* OtherError "SQLite database connection not initialized", call no engine
\* primitive, create no Statement and no statement handle, and leave the
\* Connection and the engine as they were.
C15_NoHandleNoCall ==
    [][(lastOp'.op \in {"prepare", "exec"} /\ db[lastOp'.self] = NULL)
       => /\ lastOp'.exc = OtherError("SQLite database connection not initialized")
          /\ calls' = <<>>
          /\ UNCHANGED <<connLive, db, stmtLive, stmt, columnIndices, engDb, engStmt>>
          /\ ~crashed'
      ]_vars

\* prepare was refused on a Connection whose handle a close() had given back
C15_Witness ==
    /\ lastOp.op = "prepare"
    /\ lastOp.exc = OtherError("SQLite database connection not initialized")
    /\ connLive[lastOp.self] /\ db[lastOp.self] = NULL
    /\ \E h \in DbHandles : engDb[h].st = "closed"
    /\ ~stmtLive[lastOp.other]

\* C16: on a prepared one-parameter statement, a successful bind of an int, a
\* 64-bit integer, a text or a blob makes the parameter hold the value as it
\* was at the call, whatever the caller's buffer holds later; step() changes no
\* binding and puts the parameter's value in the column; and on the row the
\* getter of the value's type returns the value: getInt for an int, getInt64
\* for a 64-bit integer, getString for a text, getBlob for a blob.
C16_BindRoundTrip ==
    [][\A s \in Stmts :
       lastOp'.self = s =>
       LET h == stmt[s]
           op == lastOp'.op
       IN
       /\ (op \in {"bind", "bind(int64)", "bind(text)", "bind(blob)"}
           /\ Prepared(s) /\ lastOp'.exc = NoExc)
          => /\ \A value \in IntValues :
                   bind(s, 1, value, NoUB)
                   => engStmt'[h].bind[1] = SignExtend(value)
             /\ \A value \in Int64Values :
                   bindInt64(s, 1, value, NoUB)
                   => engStmt'[h].bind[1] = Integer64(value.hi, value.lo)
             /\ \A value \in TextBuffers, later \in LaterBuffers :
                   bindText(s, 1, value, later, NoUB)
                   => engStmt'[h].bind[1] = TextValue(value)
             /\ \A blob \in Blobs, later \in LaterBuffers :
                   bindBlob(s, 1, blob, later, NoUB)
                   => engStmt'[h].bind[1] =
                         IF blob.data.null THEN NullValue
                         ELSE BlobValue(SubSeq(blob.data.b, 1, blob.size))
       /\ (op = "step" /\ Prepared(s) /\ engStmt[h].sql = BindSql)
          => /\ engStmt'[h].bind = engStmt[h].bind
             /\ lastOp'.ret = RInt(1)
                   => sqlite3_column_value(h, 0)' = engStmt[h].bind[1]
       /\ (op \in TypedReads /\ Prepared(s) /\ OnRow(s) /\ engStmt[h].sql = BindSql
           /\ get(s, op, 0, NoUB))
          => LET v == engStmt[h].bind[1] IN
             /\ lastOp'.exc = NoExc
             /\ (op = "getInt" /\ v.t = "integer" /\ v = SignExtend(v.lo))
                   => lastOp'.ret = RInt(v.lo)
             /\ (op = "getInt64" /\ v.t = "integer")
                   => (lastOp'.ret.hi = v.hi /\ lastOp'.ret.i = v.lo)
             /\ (op = "getString" /\ v.t = "text")
                   => lastOp'.ret = RBytes(v.b)
             /\ (op = "getBlob" /\ v.t \in {"blob", "null"})
                   => (lastOp'.ret.b = v.b /\ lastOp'.ret.i = Len(v.b))
      ]_vars

\* getString read back the two bytes bound as text, on the row of the
\* one-parameter statement
C16_Witness ==
    /\ lastOp.op = "getString"
    /\ lastOp.exc = NoExc
    /\ lastOp.ret = RBytes(<<97, 98>>)
    /\ Prepared(lastOp.self) /\ OnRow(lastOp.self)
    /\ engStmt[stmt[lastOp.self]].sql = BindSql
    /\ engStmt[stmt[lastOp.self]].bind = <<TextValue(<<97, 98>>)>>

\* the engine's bit that stands for an abstract flag
NativeBit(f) ==
    CASE f = "ReadOnly" -> SQLITE_OPEN.READONLY
      [] f = "ReadWrite" -> SQLITE_OPEN.READWRITE
      [] f = "Create" -> SQLITE_OPEN.CREATE
      [] f = "URI" -> SQLITE_OPEN.URI
      [] f = "Memory" -> SQLITE_OPEN.MEMORY
      [] f = "NoMutex" -> SQLITE_OPEN.NOMUTEX
      [] f = "FullMutex" -> SQLITE_OPEN.FULLMUTEX
      [] f = "SharedCache" -> SQLITE_OPEN.SHAREDCACHE
      [] f = "PrivateCache" -> SQLITE_OPEN.PRIVATECACHE
      [] f = "NoFollow" -> SQLITE_OPEN.NOFOLLOW

\* the bitwise OR of the engine's bits of the members of S
RECURSIVE NativeOr(_)
NativeOr(S) ==
    IF S = {} THEN 0
    ELSE LET f == CHOOSE x \in S : TRUE IN BitOr(NativeOr(S \ {f}), NativeBit(f))

NativeOrs == [n \in DOMAIN Subsets |-> NativeOr(Subsets[n])]

\* C17: for every subset S of the ten open flags combined with operator|, the
\* flag word open passes to sqlite3_open_v2 is the bitwise OR of the engine's
\* bits of the members of S: the bit of a flag is set exactly when the flag is
\* in S, and None gives 0.
C17_FlagsTranslated ==
    lastOp.op \in {"SQLite(name)", "open"}
    => \A n \in DOMAIN Subsets :
          lastOp.other = Combined[n]
          => /\ calls[1].fn = "sqlite3_open_v2"
             /\ calls[1].flags = NativeOrs[n]
             /\ \A f \in FlagNames :
                   (BitAnd(calls[1].flags, NativeBit(f)) # 0) <=> f \in Subsets[n]
             /\ Subsets[n] = {} => calls[1].flags = 0

\* a connection was opened with ReadWrite | NoFollow and the engine was given
\* SQLITE_OPEN_READWRITE | SQLITE_OPEN_NOFOLLOW
C17_Witness ==
    /\ lastOp.op = "SQLite(name)"
    /\ lastOp.exc = NoExc
    /\ lastOp.other = operatorOr(OpenFlags.ReadWrite, OpenFlags.NoFollow)
    /\ calls[1].flags = SQLITE_OPEN.READWRITE + SQLITE_OPEN.NOFOLLOW
    /\ db[lastOp.self] = calls[1].h

\* C18: after open() raised because the engine's open failed, the Connection
\* is empty: its bool conversion is false, prepare and exec on it would raise
\* OtherError "SQLite database connection not initialized", and it does not
\* hold the handle the engine handed out for the failed open.
C18_FailedOpenLeavesEmpty ==
    (lastOp.op = "open" /\ lastOp.exc # NoExc)
    => /\ ~operatorBool(lastOp.self)
       /\ ensureDb(lastOp.self) = OtherError("SQLite database connection not initialized")
       /\ db[lastOp.self] # calls[1].h

\* the operations that are given no SQL text and can fail in the engine
NoTextOps ==
    {"open", "SQLite(name)", "close", "~SQLite", "SQLite=", "finalize", "~Statement",
     "Statement=", "bind", "bind(int64)", "bind(text)", "bind(blob)", "bind(name)",
     "step", "reset", "clearBindings", "reuse"}

\* C19: an operation that is given no SQL text (open, close, finalize, bind,
\* step, reset, clearBindings) never raises SyntaxError, whatever error offset
\* the engine reports when it fails; a SyntaxError comes only from prepare(sql)
\* and exec(sql), and carries a text.
C19_SyntaxErrorOnlyWithText ==
    /\ lastOp.op \in NoTextOps => lastOp.exc.kind # "SyntaxError"
    /\ lastOp.exc.kind = "SyntaxError"
          => (lastOp.op \in {"prepare", "exec"} /\ lastOp.exc.sql # "")

\* a step failed while the engine reported an error offset of 2, and raised an
\* engine error that is no SyntaxError
C19_Witness ==
    /\ lastOp.op = "step"
    /\ lastOp.exc.kind \in EngineKinds \ {"SyntaxError"}
    /\ Len(calls) = 2 /\ ~calls[1].stale
    /\ engStmt[stmt[lastOp.self]].rc.off = 2

\* C20: when a Connection or a Statement holding a handle is destroyed and the
\* engine's close or finalize call fails, the error classified by the code is
\* raised to the code that destroyed the object, and the program goes on.
C20_DestructorRaises ==
    (/\ lastOp.op \in {"~SQLite", "~Statement"}
     /\ calls # <<>>
     /\ calls[1].fn \in {"sqlite3_close", "sqlite3_finalize"}
     /\ ~calls[1].stale
     /\ calls[1].rc # SQLITE_OK)
    => /\ lastOp.exc.kind = KindOfCode(calls[1].rc)
       /\ lastOp.exc.code = calls[1].rc
       /\ ~crashed

\* the map initializeColumnIndices leaves for the column names cols: each name
\* with the greatest zero-based index at which it occurs
LastIndex(cols) ==
    [n \in Seen(cols) |->
        (CHOOSE i \in DOMAIN cols :
            cols[i] = n /\ \A j \in DOMAIN cols : cols[j] = n => j <= i) - 1]

\* every Statement that holds a live handle has the map of that handle's columns
MapOfHandle ==
    \A s \in Stmts :
        (stmtLive[s] /\ Prepared(s))
        => columnIndices[s] = LastIndex(Columns(engStmt[stmt[s]].sql))

\* C21: in every reachable state the cached column-name map of every Statement
\* that holds a live handle is the map built from that handle's result
\* columns at preparation, each name with the greatest zero-based index at
\* which it occurs; bind, step, reset and clearBindings leave every map as it
\* was; and after a move construction or a move assignment that completes the
\* destination's map is the map the source had.
C21_MapFollowsHandle ==
    [][/\ MapOfHandle'
       /\ lastOp'.op \in {"bind", "step", "reset", "clearBindings"}
          => columnIndices' = columnIndices
       /\ (lastOp'.op \in {"Statement(&&)", "Statement="} /\ ~crashed')
          => columnIndices'[lastOp'.self] = columnIndices[lastOp'.other]]_vars

\* the second Statement, holding the text with two columns named a, was move
\* assigned to the first, which held another handle and so another map: the
\* first now resolves a to the last column
C21_Witness ==
    /\ lastOp.op = "Statement=" /\ lastOp.self # lastOp.other
    /\ ~crashed /\ lastOp.exc = NoExc
    /\ calls # <<>> /\ calls[1].fn = "sqlite3_finalize"
    /\ Prepared(lastOp.self)
    /\ engStmt[stmt[lastOp.self]].sql = "SELECT 1 AS a, 2 AS a"
    /\ engStmt[stmt[lastOp.self]].pos > 0
    /\ columnIndices[lastOp.self]["a"] = 1

\* C22: reuse() does what reset() followed by clearBindings() does, from every
\* state: the engine's clear-bindings is only ever called after the engine's
\* reset has returned SQLITE_OK; on a Statement without handle it raises what
\* reset() raises, calls nothing and changes nothing; on a prepared Statement
\* it ends as reset() ends when reset() raises (the error of a step that
\* failed before), without a call of clear-bindings and with the bindings as
\* they were; otherwise it returns normally after the two engine calls in that
\* order, the statement is where it was before its first step and every
\* parameter is unbound, which is the state clearBindings() leaves after
\* reset().
C22_ReuseIsResetThenClear ==
    [][\A s \in Stmts :
          (lastOp'.op = "reuse" /\ lastOp'.self = s)
          => LET h == stmt[s]
                 first == resetRes(s, NoUB)
                 second == clearBindingsRes(first.S, s, NoUB)
             IN
             /\ \A i \in DOMAIN calls' :
                   calls'[i].fn = "sqlite3_clear_bindings"
                   => /\ i = 2
                      /\ calls'[1].fn = "sqlite3_reset"
                      /\ calls'[1].rc = SQLITE_OK
             /\ h = NULL
                => /\ lastOp'.exc = OtherError("SQLite statement not initialized")
                   /\ lastOp'.exc = first.exc
                   /\ calls' = <<>>
                   /\ engStmt' = engStmt
             /\ Prepared(s)
                => /\ calls' # <<>>
                   /\ calls'[1] = Call("sqlite3_reset", h, FALSE, engStmt[h].rc.code)
                   /\ lastOp'.exc = NoExc <=> engStmt[h].rc = OkErr
                   /\ ~crashed'
                   /\ IF engStmt[h].rc # OkErr
                      THEN /\ lastOp'.exc = first.exc
                           /\ lastOp'.exc.message = "failed to reset statement"
                           /\ lastOp'.exc.code = engStmt[h].rc.code
                           /\ calls' = first.calls
                           /\ engStmt' = first.S
                           /\ engStmt'[h].bind = engStmt[h].bind
                      ELSE /\ first.exc = NoExc /\ second.exc = NoExc
                           /\ calls' = first.calls \o second.calls
                           /\ calls'[2] = Call("sqlite3_clear_bindings", h, FALSE, SQLITE_OK)
                           /\ engStmt' = second.S
                           /\ engStmt'[h] =
                                 [engStmt[h] EXCEPT
                                     !.pos = 0, !.rc = OkErr,
                                     !.bind = [i \in DOMAIN @ |-> NullValue]]
      ]_vars

\* reuse() on a Statement whose parameter :x is bound and whose last step
\* failed with SQLITE_BUSY: the engine's reset reported that error, reuse()
\* raised BusyError, clear-bindings was not called and :x is still bound
C22_Witness ==
    /\ lastOp.op = "reuse"
    /\ lastOp.exc.kind = "BusyError"
    /\ lastOp.exc.message = "failed to reset statement"
    /\ Prepared(lastOp.self)
    /\ engStmt[stmt[lastOp.self]].sql = "SELECT :x AS b"
    /\ engStmt[stmt[lastOp.self]].bind = <<SignExtend(7)>>
    /\ engStmt[stmt[lastOp.self]].pos = 0
    /\ calls # <<>> /\ calls[1] = Call("sqlite3_reset", stmt[lastOp.self], FALSE, SQLITE_BUSY)
    /\ \A i \in DOMAIN calls : calls[i].fn # "sqlite3_clear_bindings"

=============================================================================
